---- MODULE Spec2Model ----
(***************************************************************************)
(* A model of the adaptive Jira integration layer of mcp-atlassian:        *)
(* src/src/mcp_atlassian/jira/client.py  (JiraClient) and                  *)
(* src/src/mcp_atlassian/jira/issues.py  (IssueManager).                   *)
(*                                                                         *)
(* Python strings are TLA+ strings; the substring tests, lower-casing and  *)
(* character classes of the code are computed character by character.     *)
(* A Python exception is a record [cls, msg, hasStatus, status, response]; *)
(* an optional value is the empty set (None) or a singleton.               *)
(***************************************************************************)
EXTENDS Integers, Sequences, FiniteSets, TLC

(***************************************************************************)
(* Bounds of the model.                                                    *)
(***************************************************************************)
\* Threads that may be inside get_jira_field_ids at the same time.
NumCallers == 2
\* Calls of get_jira_field_ids made on the one client, over all threads.
MaxCalls == 3
\* Longest field catalog the upstream returns.
MaxCatalogLen == 2
\* Calls of link_issue_to_epic and get_epic_issues made, one after the other,
\* on the one client.
MaxEpicOps == 2
\* Longest identifier passed to _get_account_id.
MaxIdLen == 2
\* Longest list a user search returns.
MaxUsers == 2
\* Longest list of transitions the upstream returns.
MaxTransitions == 2
\* Most words of a time string.
MaxWords == 3
\* Most keyword arguments given to create_issue.
MaxKwargs == 2

(***************************************************************************)
(* Python string primitives.                                               *)
(***************************************************************************)
UpperLetters == "ABCDEFGHIJKLMNOPQRSTUVWXYZ"
LowerLetters == "abcdefghijklmnopqrstuvwxyz"
Digits == "0123456789"

\* c is a one-character string that occurs in the string s
CharIn(c, s) == \E i \in 1..Len(s) : SubSeq(s, i, i) = c

IndexOf(c, s) == CHOOSE i \in 1..Len(s) : SubSeq(s, i, i) = c

\* needle in s
Contains(s, needle) ==
    \E i \in 1..(Len(s) - Len(needle) + 1) : SubSeq(s, i, i + Len(needle) - 1) = needle

LowerChar(c) ==
    IF CharIn(c, UpperLetters)
    THEN LET i == IndexOf(c, UpperLetters) IN SubSeq(LowerLetters, i, i)
    ELSE c

UpperChar(c) ==
    IF CharIn(c, LowerLetters)
    THEN LET i == IndexOf(c, LowerLetters) IN SubSeq(UpperLetters, i, i)
    ELSE c

\* str.lower()
RECURSIVE Lower(_)
Lower(s) ==
    IF Len(s) = 0 THEN ""
    ELSE IF Len(s) = 1 THEN LowerChar(s)
    ELSE Lower(SubSeq(s, 1, Len(s) \div 2)) \o Lower(SubSeq(s, Len(s) \div 2 + 1, Len(s)))

\* str.capitalize(): first character upper-cased, the rest lower-cased
Capitalize(s) ==
    IF Len(s) = 0 THEN "" ELSE UpperChar(SubSeq(s, 1, 1)) \o Lower(SubSeq(s, 2, Len(s)))

\* str.replace(old, new) for a non-empty old
RECURSIVE Replace(_, _, _)
Replace(s, old, new) ==
    IF Len(s) < Len(old) THEN s
    ELSE IF SubSeq(s, 1, Len(old)) = old
         THEN new \o Replace(SubSeq(s, Len(old) + 1, Len(s)), old, new)
         ELSE SubSeq(s, 1, 1) \o Replace(SubSeq(s, 2, Len(s)), old, new)

\* str.isalnum(): non-empty and every character a letter or a digit
IsAlnum(s) ==
    /\ Len(s) > 0
    /\ \A i \in 1..Len(s) :
         LET c == SubSeq(s, i, i)
         IN CharIn(c, UpperLetters) \/ CharIn(c, LowerLetters) \/ CharIn(c, Digits)

(***************************************************************************)
(* Exceptions (src/src/mcp_atlassian/jira/exceptions.py).                  *)
(***************************************************************************)
None == {}
Some(v) == {v}

\* JiraAPIError.__init__ and its subclasses: status_code and response are
\* always attributes of the object, None unless given.
JiraError(cls, message, status_code, response) ==
    [cls |-> cls, msg |-> message, hasStatus |-> TRUE,
     status |-> status_code, response |-> response]

\* The kinds of the taxonomy: JiraAPIError and its subclasses.
TaxonomyClasses ==
    {"JiraAPIError", "JiraAuthenticationError", "JiraPermissionError",
     "JiraResourceNotFoundError", "JiraFieldError", "JiraIssueTypeError",
     "JiraWorkflowError"}

\* A built-in exception raised with a message only (ValueError, KeyError, ...)
PlainError(cls, message) ==
    [cls |-> cls, msg |-> message, hasStatus |-> FALSE,
     status |-> None, response |-> None]

\* Failures of the transport collaborator: an HTTP error that carries a status
\* code and a response, or an error with a message only.
HTTPError(code, message) ==
    [cls |-> "HTTPError", msg |-> message, hasStatus |-> TRUE,
     status |-> Some(code), response |-> Some("body")]

UpstreamErrors ==
    { HTTPError(401, "Unauthorized"),
      HTTPError(404, "Issue does not exist"),
      HTTPError(500, "Internal server error"),
      PlainError("ConnectionError", "Connection timed out") }

(***************************************************************************)
(* JiraClient._handle_error: the exception it raises (it never returns).   *)
(***************************************************************************)
\* _handle_error with the tests of lines 150 and 156 in the other order.
_handle_error_permission_first(e, resource_type, resource_id) ==
    LET error_message == e.msg
        status_code == e.status
        response == e.response
        auth == JiraError("JiraAuthenticationError",
                    "Authentication failed for " \o resource_type \o ": " \o error_message,
                    status_code, response)
        perm == JiraError("JiraPermissionError",
                    "Permission denied for " \o resource_type \o " " \o resource_id
                        \o ": " \o error_message,
                    status_code, response)
        notfound == JiraError("JiraResourceNotFoundError",
                    Capitalize(resource_type) \o " " \o resource_id \o " not found: "
                        \o error_message,
                    status_code, response)
        generic == JiraError("JiraAPIError",
                    "Error accessing " \o resource_type \o " " \o resource_id \o ": "
                        \o error_message,
                    status_code, response)
        low == Lower(error_message)
    IN  IF e.hasStatus /\ status_code = Some(401) THEN auth
        ELSE IF e.hasStatus /\ status_code = Some(403) THEN perm
        ELSE IF e.hasStatus /\ status_code = Some(404) THEN notfound
        ELSE IF Contains(low, "permission") \/ Contains(low, "access") THEN perm
        ELSE IF Contains(low, "authentication") \/ Contains(low, "unauthorized") THEN auth
        ELSE IF Contains(low, "not found") \/ Contains(low, "does not exist") THEN notfound
        ELSE generic

_handle_error(e, resource_type, resource_id) ==
    LET error_message == e.msg
        status_code == e.status
        response == e.response
        auth == JiraError("JiraAuthenticationError",
                    "Authentication failed for " \o resource_type \o ": " \o error_message,
                    status_code, response)
        perm == JiraError("JiraPermissionError",
                    "Permission denied for " \o resource_type \o " " \o resource_id
                        \o ": " \o error_message,
                    status_code, response)
        notfound == JiraError("JiraResourceNotFoundError",
                    Capitalize(resource_type) \o " " \o resource_id \o " not found: "
                        \o error_message,
                    status_code, response)
        generic == JiraError("JiraAPIError",
                    "Error accessing " \o resource_type \o " " \o resource_id \o ": "
                        \o error_message,
                    status_code, response)
        low == Lower(error_message)
    IN  IF e.hasStatus /\ status_code = Some(401) THEN auth
        ELSE IF e.hasStatus /\ status_code = Some(403) THEN perm
        ELSE IF e.hasStatus /\ status_code = Some(404) THEN notfound
        ELSE IF Contains(low, "authentication") \/ Contains(low, "unauthorized") THEN auth
        ELSE IF Contains(low, "permission") \/ Contains(low, "access") THEN perm
        ELSE IF Contains(low, "not found") \/ Contains(low, "does not exist") THEN notfound
        ELSE generic

(***************************************************************************)
(* The field catalog of the instance (jira.fields()).  An entry is         *)
(* [id, name, custom]: custom is schema.custom; a key the upstream leaves  *)
(* out is read with the default "".                                        *)
(***************************************************************************)
FieldEntry(id, name, custom) == [id |-> id, name |-> name, custom |-> custom]


RECURSIVE SeqsUpTo(_, _)
SeqsUpTo(S, n) ==
    IF n = 0 THEN {<<>>}
    ELSE LET shorter == SeqsUpTo(S, n - 1)
         IN shorter \cup {Append(q, x) : q \in shorter, x \in S}

\* What one call of jira.fields() may return.
Catalogs ==
    SeqsUpTo(
        { FieldEntry("customfield_10014", "Epic Link", "com.pyxis.greenhopper.jira:gh-epic-link"),
          FieldEntry("customfield_10011", "Epic Name", "com.pyxis.greenhopper.jira:gh-epic-label"),
          FieldEntry("customfield_10013", "Epic Color", "com.pyxis.greenhopper.jira:gh-epic-color"),
          FieldEntry("customfield_10020", "Sprint", "com.pyxis.greenhopper.jira:gh-sprint"),
          FieldEntry("parent", "Parent", ""),
          FieldEntry("customfield_10030", "Epic Theme", ""),
          FieldEntry("summary", "Summary", "") },
        MaxCatalogLen)

(***************************************************************************)
(* Python dicts with string keys.                                          *)
(***************************************************************************)
EmptyMap == [k \in {} |-> ""]
Put(m, k, v) == [x \in (DOMAIN m) \cup {k} |-> IF x = k THEN v ELSE m[x]]
\* bool(dict): a dict is true when it has an entry
Truthy(m) == DOMAIN m # {}

(***************************************************************************)
(* JiraClient.get_jira_field_ids, the body of the loop over the catalog:   *)
(* field_ids after one entry has been classified.                          *)
(***************************************************************************)
\* The loop body with the sprint rule of line 254 tried before the others.
classify_field_sprint_first(field, field_ids) ==
    LET field_name == Lower(field.name)
        original_name == field.name
        field_id == field.id
        field_custom == field.custom
    IN  IF \/ Contains(field_name, "sprint")
           \/ field_custom = "com.pyxis.greenhopper.jira:gh-sprint"
        THEN Put(field_ids, "sprint", field_id)
        ELSE IF \/ Contains(field_name, "epic link")
                \/ Contains(field_name, "epic-link")
                \/ original_name = "Epic Link"
                \/ field_custom = "com.pyxis.greenhopper.jira:gh-epic-link"
        THEN Put(field_ids, "epic_link", field_id)
        ELSE IF \/ Contains(field_name, "epic name")
                \/ Contains(field_name, "epic-name")
                \/ original_name = "Epic Name"
                \/ field_custom = "com.pyxis.greenhopper.jira:gh-epic-label"
        THEN Put(field_ids, "epic_name", field_id)
        ELSE IF \/ field_name = "parent"
                \/ field_name = "parent link"
                \/ original_name = "Parent Link"
        THEN Put(field_ids, "parent", field_id)
        ELSE IF Contains(field_name, "epic status") \/ original_name = "Epic Status"
        THEN Put(field_ids, "epic_status", field_id)
        ELSE IF \/ Contains(field_name, "epic colour")
                \/ Contains(field_name, "epic color")
                \/ original_name = "Epic Colour"
                \/ original_name = "Epic Color"
                \/ field_custom = "com.pyxis.greenhopper.jira:gh-epic-color"
        THEN Put(field_ids, "epic_color", field_id)
        ELSE IF field_name = "priority" \/ original_name = "Priority"
        THEN Put(field_ids, "priority", field_id)
        ELSE IF \/ Contains(field_name, "story points")
                \/ Contains(field_name, "storypoints")
                \/ Contains(field_name, "story point")
        THEN Put(field_ids, "story_points", field_id)
        ELSE IF /\ Contains(field_name, "epic") \/ Contains(field_custom, "epic")
                /\ field_id \notin {field_ids[k] : k \in DOMAIN field_ids}
        THEN Put(field_ids, "epic_" \o Replace(field_name, " ", "_"), field_id)
        ELSE field_ids

\* Lines 199-267.
classify_field(field, field_ids) ==
    LET field_name == Lower(field.name)
        original_name == field.name
        field_id == field.id
        field_custom == field.custom
    IN  IF \/ Contains(field_name, "epic link")
           \/ Contains(field_name, "epic-link")
           \/ original_name = "Epic Link"
           \/ field_custom = "com.pyxis.greenhopper.jira:gh-epic-link"
        THEN Put(field_ids, "epic_link", field_id)
        ELSE IF \/ Contains(field_name, "epic name")
                \/ Contains(field_name, "epic-name")
                \/ original_name = "Epic Name"
                \/ field_custom = "com.pyxis.greenhopper.jira:gh-epic-label"
        THEN Put(field_ids, "epic_name", field_id)
        ELSE IF \/ field_name = "parent"
                \/ field_name = "parent link"
                \/ original_name = "Parent Link"
        THEN Put(field_ids, "parent", field_id)
        ELSE IF Contains(field_name, "epic status") \/ original_name = "Epic Status"
        THEN Put(field_ids, "epic_status", field_id)
        ELSE IF \/ Contains(field_name, "epic colour")
                \/ Contains(field_name, "epic color")
                \/ original_name = "Epic Colour"
                \/ original_name = "Epic Color"
                \/ field_custom = "com.pyxis.greenhopper.jira:gh-epic-color"
        THEN Put(field_ids, "epic_color", field_id)
        ELSE IF field_name = "priority" \/ original_name = "Priority"
        THEN Put(field_ids, "priority", field_id)
        ELSE IF \/ Contains(field_name, "sprint")
                \/ field_custom = "com.pyxis.greenhopper.jira:gh-sprint"
        THEN Put(field_ids, "sprint", field_id)
        ELSE IF \/ Contains(field_name, "story points")
                \/ Contains(field_name, "storypoints")
                \/ Contains(field_name, "story point")
        THEN Put(field_ids, "story_points", field_id)
        ELSE IF /\ Contains(field_name, "epic") \/ Contains(field_custom, "epic")
                /\ field_id \notin {field_ids[k] : k \in DOMAIN field_ids}
        THEN Put(field_ids, "epic_" \o Replace(field_name, " ", "_"), field_id)
        ELSE field_ids

\* The loop of get_jira_field_ids over the catalog, in catalog order.
RECURSIVE classify_fields(_, _)
classify_fields(fields, field_ids) ==
    IF fields = <<>> THEN field_ids
    ELSE classify_fields(Tail(fields), classify_field(Head(fields), field_ids))

\* The map get_jira_field_ids builds from one catalog.
build_field_ids(fields) == classify_fields(fields, EmptyMap)

\* A catalog the upstream may return, with the map the code builds from it.
Discoveries == {[fields |-> f, field_ids |-> build_field_ids(f)] : f \in Catalogs}

(***************************************************************************)
(* State.                                                                  *)
(***************************************************************************)
VARIABLES
    field_ids_cache,  \* JiraClient._field_ids_cache of the one client
    fetchCount,       \* calls of jira.fields() issued so far
    fpc,              \* per thread: where it is in get_jira_field_ids
    fret,             \* per thread: how its current call ended
    ncalls,           \* calls of get_jira_field_ids begun on the client
    succeeded,        \* some call of get_jira_field_ids has returned a map
    firstMap,         \* the map the first such call returned
    afterSuccess,     \* per thread: its current call began when succeeded held
    fetchFailed,      \* per thread: jira.fields() raised in its current call
    epicOps,          \* calls of link_issue_to_epic and get_epic_issues begun
    epicType,         \* issue type name of the issue jira.issue(epic_key) returned
    lpc,              \* where link_issue_to_epic is
    largs,            \* its arguments [issue_key, epic_key]
    lfield_ids,       \* its local field_ids
    lattempt,         \* index of the next entry of custom_field_attempts
    writes,           \* the calls of jira.issue_update it made: [field, ok]
    lret,             \* how the call ended
    epc,              \* where get_epic_issues is
    eargs,            \* its argument [epic_key]
    jql_queries,      \* its local list of candidate queries
    documents,        \* its local documents: the last search result
    jqlLog,           \* the calls of search_issues it made: [jql, kind, docs]
    eret,             \* how the call ended
    apc,              \* where _get_account_id is
    assignee,         \* its argument
    alog,             \* the user searches it made: [api, query, kind, users]
    aret,             \* how the call ended
    hargs,            \* the arguments of _handle_error: [e, resource_type, resource_id]
    hret,             \* how the call of _handle_error ended
    op,               \* the last operation called on the issue manager
    oargs,            \* its arguments
    ocalls,           \* the upstream calls it made: [api, kind, err]
    oret,             \* how the call ended
    transitions_data, \* what jira.get_issue_transitions returned
    tret,             \* how get_available_transitions ended
    time_spent,       \* the argument of _parse_time_spent
    words,            \* the words time_spent was written from
    dret,             \* how _parse_time_spent ended
    date_arg,         \* the argument of _parse_date
    stamp,            \* the parts date_arg was written from: [date, time, offset]
    basic_offsets,    \* whether fromisoformat takes [+-]HHMM and Z (Python 3.11 on)
    pret,             \* how _parse_date ended
    catalog,          \* the catalog classified on its own
    cret,             \* the map built from it
    okwargs,          \* the keyword arguments create_issue was called with
    sent_fields,      \* the fields create_issue passed to jira.create_issue
    status_run,       \* update_issue: the transitions it was given and the id it chose
    settings,         \* what JiraClient(...) was constructed from
    client            \* how the construction ended

clientVars == <<field_ids_cache, fetchCount>>
fieldVars == <<fpc, fret, ncalls, succeeded, firstMap, afterSuccess, fetchFailed>>

linkVars == <<lpc, largs, lfield_ids, lattempt, writes, lret>>
epicVars == <<epc, eargs, jql_queries, documents, jqlLog, eret>>
opVars == <<epicOps, epicType>>
acctVars == <<apc, assignee, alog, aret>>
mapperVars == <<hargs, hret>>
managerVars == <<op, oargs, ocalls, oret>>
transitionVars == <<transitions_data, tret>>
durationVars == <<time_spent, words, dret>>
dateVars == <<date_arg, stamp, basic_offsets, pret>>
classifyVars == <<catalog, cret>>
createVars == <<okwargs, sent_fields>>
constructVars == <<settings, client>>
pureVars == <<dateVars, classifyVars, createVars, status_run, constructVars>>
vars == <<clientVars, fieldVars, opVars, linkVars, epicVars, acctVars,
          mapperVars, managerVars, transitionVars, durationVars, pureVars>>

\* What the actions of one component leave alone.
laterVars == <<mapperVars, managerVars, transitionVars, durationVars, pureVars>>

Callers == 1..NumCallers

NoError == PlainError("", "")
Pending == [kind |-> "none", map |-> EmptyMap, err |-> NoError]
Returned(m) == [kind |-> "return", map |-> m, err |-> NoError]



(***************************************************************************)
(* JiraClient.get_jira_field_ids, called by several threads on one client. *)
(* A thread can be preempted while it waits for jira.fields().             *)
(***************************************************************************)
\* Lines 185-191: the cache test; a hit returns the cache, a miss issues the
\* catalog query.
get_jira_field_ids_call(c) ==
    /\ fpc[c] \in {"idle", "done"}
    /\ ncalls < MaxCalls
    /\ ncalls' = ncalls + 1
    /\ afterSuccess' = [afterSuccess EXCEPT ![c] = succeeded]
    /\ fetchFailed' = [fetchFailed EXCEPT ![c] = FALSE]
    /\ \/ /\ Truthy(field_ids_cache)
          /\ fpc' = [fpc EXCEPT ![c] = "done"]
          /\ fret' = [fret EXCEPT ![c] = Returned(field_ids_cache)]
          /\ UNCHANGED <<fetchCount, succeeded, firstMap>>
       \/ /\ ~Truthy(field_ids_cache)
          /\ fpc' = [fpc EXCEPT ![c] = "fetching"]
          /\ fret' = [fret EXCEPT ![c] = Pending]
          /\ fetchCount' = fetchCount + 1
          /\ UNCHANGED <<succeeded, firstMap>>
    /\ UNCHANGED <<field_ids_cache, <<opVars, linkVars, epicVars, acctVars, laterVars>>>>

\* Lines 191-271: jira.fields() returns a catalog; it is classified, the map is
\* stored in the cache and returned.
get_jira_field_ids_fetched(c) ==
    /\ fpc[c] = "fetching"
    /\ \E d \in Discoveries :
         /\ field_ids_cache' = d.field_ids
         /\ fret' = [fret EXCEPT ![c] = Returned(d.field_ids)]
         /\ firstMap' = IF succeeded THEN firstMap ELSE d.field_ids
    /\ fpc' = [fpc EXCEPT ![c] = "done"]
    /\ succeeded' = TRUE
    /\ UNCHANGED <<fetchCount, ncalls, afterSuccess, fetchFailed, <<opVars, linkVars, epicVars, acctVars, laterVars>>>>

\* The failing call with a cache that is marked as filled.
get_jira_field_ids_failed_marks_cache(c) ==
    /\ fpc[c] = "fetching"
    /\ \E e \in UpstreamErrors :
         fret' = [fret EXCEPT ![c] = [kind |-> "raise", map |-> EmptyMap,
                                     err |-> _handle_error(e, "fields", "")]]
    /\ fpc' = [fpc EXCEPT ![c] = "done"]
    /\ fetchFailed' = [fetchFailed EXCEPT ![c] = TRUE]
    /\ field_ids_cache' = [key \in {"failed"} |-> "true"]
    /\ UNCHANGED <<fetchCount, ncalls, succeeded, firstMap, afterSuccess>>
    /\ UNCHANGED <<opVars, linkVars, epicVars, acctVars, laterVars>>

\* Lines 273-277: jira.fields() raises; _handle_error raises in turn, so the
\* return of line 277 is never reached.
get_jira_field_ids_failed(c) ==
    /\ fpc[c] = "fetching"
    /\ \E e \in UpstreamErrors :
         fret' = [fret EXCEPT ![c] = [kind |-> "raise", map |-> EmptyMap,
                                     err |-> _handle_error(e, "fields", "")]]
    /\ fpc' = [fpc EXCEPT ![c] = "done"]
    /\ fetchFailed' = [fetchFailed EXCEPT ![c] = TRUE]
    /\ UNCHANGED <<field_ids_cache, fetchCount, ncalls, succeeded, firstMap, afterSuccess>>
    /\ UNCHANGED <<opVars, linkVars, epicVars, acctVars, laterVars>>


(***************************************************************************)
(* The epic operations of IssueManager, called one at a time on the client.*)
(***************************************************************************)
IssueKeys == {"PROJ-1"}
EpicKeys == {"PROJ-2", "ACCESS-7"}
\* Issue type names the instance may have configured.
IssueTypeNames == {"Epic", "Story", "Item Not Found"}
\* What search_issues may return: issue keys standing for the Documents.
SearchResults == {<<>>, <<"PROJ-3">>, <<"PROJ-3", "PROJ-4">>}

NoDoc == ""
LPending == [kind |-> "none", doc |-> NoDoc, err |-> NoError]
LReturned(d) == [kind |-> "return", doc |-> d, err |-> NoError]
LRaised(e) == [kind |-> "raise", doc |-> NoDoc, err |-> e]
EPending == [kind |-> "none", docs |-> <<>>, err |-> NoError]
EReturned(ds) == [kind |-> "return", docs |-> ds, err |-> NoError]
ERaised(e) == [kind |-> "raise", docs |-> <<>>, err |-> e]


NoOpRunning == lpc \in {"idle", "done"} /\ epc \in {"idle", "done"}



\* get_jira_field_ids called from one thread: what it may do from a cache, as
\* [kind, map, err, cache, fetched].
field_ids_outcomes(cache) ==
    IF Truthy(cache)
    THEN {[kind |-> "return", map |-> cache, err |-> NoError,
           cache |-> cache, fetched |-> 0]}
    ELSE {[kind |-> "return", map |-> d.field_ids, err |-> NoError,
           cache |-> d.field_ids, fetched |-> 1] : d \in Discoveries}
         \cup
         {[kind |-> "raise", map |-> EmptyMap, err |-> _handle_error(e, "fields", ""),
           cache |-> cache, fetched |-> 1] : e \in UpstreamErrors}

\* Lines 771-773 and 844.
issue_type_error(epic_key, type_name) ==
    JiraError("JiraIssueTypeError",
              "Issue " \o epic_key \o " is not an Epic, it is a " \o type_name,
              None, None)

(***************************************************************************)
(* IssueManager.link_issue_to_epic.                                        *)
(***************************************************************************)
\* Lines 816-822: the handler around the whole body; the exception it raises.
link_except(e, issue_key, epic_key) ==
    IF Contains(Lower(e.msg), "does not exist") \/ Contains(Lower(e.msg), "not found")
    THEN JiraError("JiraResourceNotFoundError", e.msg, None, None)
    ELSE IF e.cls = "JiraIssueTypeError" THEN e
    ELSE _handle_error(e, "issue", "linking " \o issue_key \o " to " \o epic_key)

\* custom_field_attempts with its first two entries in the other order.
custom_field_attempts_swapped == <<"customfield_10000", "customfield_10014", "epic_link">>

\* Lines 797-801: the keys of the dicts tried last, in order.
custom_field_attempts == <<"customfield_10014", "customfield_10000", "epic_link">>

\* Lines 812-814.
could_not_link_error(issue_key, epic_key) ==
    JiraError("JiraAPIError",
              "Could not link issue " \o issue_key \o " to epic " \o epic_key
                  \o ". Your Jira instance might use a different field for epic links.",
              None, None)

link_issue_to_epic_call ==
    /\ NoOpRunning
    /\ epicOps < MaxEpicOps
    /\ epicOps' = epicOps + 1
    /\ \E ik \in IssueKeys, ek \in EpicKeys :
         largs' = [issue_key |-> ik, epic_key |-> ek]
    /\ lpc' = "epic_check"
    /\ epicType' = ""
    /\ lfield_ids' = EmptyMap
    /\ lattempt' = 1
    /\ writes' = <<>>
    /\ lret' = LPending
    /\ epc' = "idle"
    /\ eargs' = [epic_key |-> ""]
    /\ jql_queries' = <<>>
    /\ documents' = <<>>
    /\ jqlLog' = <<>>
    /\ eret' = EPending
    /\ UNCHANGED <<clientVars, <<fieldVars, acctVars, laterVars>>>>

\* Lines 769-773: jira.issue(epic_key) and the test of its issue type.
link_check_epic ==
    /\ lpc = "epic_check"
    /\ \/ \E e \in UpstreamErrors :
            /\ lret' = LRaised(link_except(e, largs.issue_key, largs.epic_key))
            /\ lpc' = "done"
            /\ UNCHANGED epicType
       \/ \E n \in IssueTypeNames :
            /\ epicType' = n
            /\ IF n # "Epic"
               THEN /\ lret' = LRaised(link_except(issue_type_error(largs.epic_key, n),
                                                   largs.issue_key, largs.epic_key))
                    /\ lpc' = "done"
               ELSE /\ lret' = lret
                    /\ lpc' = "discover"
    /\ UNCHANGED <<clientVars, epicOps, largs, lfield_ids, lattempt, writes, epicVars, <<fieldVars, acctVars, laterVars>>>>

\* Line 776: field_ids = self.get_jira_field_ids().
link_discover ==
    /\ lpc = "discover"
    /\ \E o \in field_ids_outcomes(field_ids_cache) :
         /\ field_ids_cache' = o.cache
         /\ fetchCount' = fetchCount + o.fetched
         /\ IF o.kind = "return"
            THEN /\ lfield_ids' = o.map
                 /\ lpc' = "parent"
                 /\ lret' = lret
            ELSE /\ lfield_ids' = lfield_ids
                 /\ lpc' = "done"
                 /\ lret' = LRaised(link_except(o.err, largs.issue_key, largs.epic_key))
    /\ UNCHANGED <<opVars, largs, lattempt, writes, epicVars, <<fieldVars, acctVars, laterVars>>>>

\* One strategy (lines 780-785, 789-794, 804-809): jira.issue_update on one
\* field and, if it did not raise, get_issue, inside the same try.  The call
\* returns when neither raised and goes on to `next` when either did.
link_try(field, next) ==
    \E updated \in BOOLEAN, read \in BOOLEAN :
        /\ read => updated
        /\ writes' = Append(writes, [field |-> field, ok |-> updated])
        /\ IF updated /\ read
           THEN /\ lret' = LReturned(largs.issue_key)
                /\ lpc' = "done"
           ELSE /\ lret' = lret
                /\ lpc' = next

\* Lines 778-785; the test of line 779 is true of every map.
link_try_parent ==
    /\ lpc = "parent"
    /\ link_try("parent", IF "epic_link" \in DOMAIN lfield_ids THEN "epic_link" ELSE "legacy")
    /\ UNCHANGED <<clientVars, opVars, largs, lfield_ids, lattempt, epicVars, <<fieldVars, acctVars, laterVars>>>>

\* Lines 787-794.
link_try_epic_link ==
    /\ lpc = "epic_link"
    /\ link_try(lfield_ids["epic_link"], "legacy")
    /\ UNCHANGED <<clientVars, opVars, largs, lfield_ids, lattempt, epicVars, <<fieldVars, acctVars, laterVars>>>>

\* Lines 803-809: one round of the loop over custom_field_attempts.
link_try_legacy ==
    /\ lpc = "legacy"
    /\ lattempt <= Len(custom_field_attempts)
    /\ link_try(custom_field_attempts[lattempt], "legacy")
    /\ lattempt' = lattempt + 1
    /\ UNCHANGED <<clientVars, opVars, largs, lfield_ids, epicVars, <<fieldVars, acctVars, laterVars>>>>

\* link_exhausted without the raise of line 812: the call falls off the end
\* of the function and returns None.
link_exhausted_returns ==
    /\ lpc = "legacy"
    /\ lattempt > Len(custom_field_attempts)
    /\ lret' = LReturned(NoDoc)
    /\ lpc' = "done"
    /\ UNCHANGED <<clientVars, opVars, largs, lfield_ids, lattempt, writes, epicVars, <<fieldVars, acctVars, laterVars>>>>

\* Lines 811-822: the loop is over; the error of line 812 goes through the
\* handler of line 816.
link_exhausted ==
    /\ lpc = "legacy"
    /\ lattempt > Len(custom_field_attempts)
    /\ lret' = LRaised(link_except(could_not_link_error(largs.issue_key, largs.epic_key),
                                   largs.issue_key, largs.epic_key))
    /\ lpc' = "done"
    /\ UNCHANGED <<clientVars, opVars, largs, lfield_ids, lattempt, writes, epicVars, <<fieldVars, acctVars, laterVars>>>>


(***************************************************************************)
(* IssueManager.get_epic_issues.                                           *)
(***************************************************************************)
\* Lines 892-896: the handler around the whole body; the exception it raises.
epic_except(e, epic_key) ==
    IF e.cls = "JiraIssueTypeError" THEN e ELSE _handle_error(e, "epic", epic_key)

\* Lines 849-869: the candidate queries, in the order they are tried.
build_jql_queries(field_ids, epic_key) ==
    (IF "parent" \in DOMAIN field_ids THEN <<"parent = " \o epic_key>> ELSE <<>>)
    \o (IF "epic_link" \in DOMAIN field_ids
        THEN LET field_name == field_ids["epic_link"]
             IN  <<"\"" \o field_name \o "\" = " \o epic_key,
                   "\"" \o field_name \o "\" ~ " \o epic_key>>
        ELSE <<>>)
    \o <<"parent = " \o epic_key,
         "'Epic Link' = " \o epic_key,
         "'Epic' = " \o epic_key,
         "issue in childIssuesOf('" \o epic_key \o "')">>

get_epic_issues_call ==
    /\ NoOpRunning
    /\ epicOps < MaxEpicOps
    /\ epicOps' = epicOps + 1
    /\ \E ek \in EpicKeys : eargs' = [epic_key |-> ek]
    /\ epc' = "epic_check"
    /\ epicType' = ""
    /\ jql_queries' = <<>>
    /\ documents' = <<>>
    /\ jqlLog' = <<>>
    /\ eret' = EPending
    /\ lpc' = "idle"
    /\ largs' = [issue_key |-> "", epic_key |-> ""]
    /\ lfield_ids' = EmptyMap
    /\ lattempt' = 1
    /\ writes' = <<>>
    /\ lret' = LPending
    /\ UNCHANGED <<clientVars, <<fieldVars, acctVars, laterVars>>>>

\* Lines 842-844: jira.issue(epic_key) and the test of its issue type.
epic_check_epic ==
    /\ epc = "epic_check"
    /\ \/ \E e \in UpstreamErrors :
            /\ eret' = ERaised(epic_except(e, eargs.epic_key))
            /\ epc' = "done"
            /\ UNCHANGED epicType
       \/ \E n \in IssueTypeNames :
            /\ epicType' = n
            /\ IF n # "Epic"
               THEN /\ eret' = ERaised(epic_except(issue_type_error(eargs.epic_key, n),
                                                   eargs.epic_key))
                    /\ epc' = "done"
               ELSE /\ eret' = eret
                    /\ epc' = "discover"
    /\ UNCHANGED <<clientVars, epicOps, eargs, jql_queries, documents, jqlLog, linkVars, <<fieldVars, acctVars, laterVars>>>>

\* Lines 847-872: field discovery, then the list of candidate queries.
epic_discover ==
    /\ epc = "discover"
    /\ \E o \in field_ids_outcomes(field_ids_cache) :
         /\ field_ids_cache' = o.cache
         /\ fetchCount' = fetchCount + o.fetched
         /\ IF o.kind = "return"
            THEN /\ jql_queries' = build_jql_queries(o.map, eargs.epic_key)
                 /\ epc' = "queries"
                 /\ eret' = eret
            ELSE /\ jql_queries' = jql_queries
                 /\ epc' = "done"
                 /\ eret' = ERaised(epic_except(o.err, eargs.epic_key))
    /\ UNCHANGED <<opVars, eargs, documents, jqlLog, linkVars, <<fieldVars, acctVars, laterVars>>>>

\* epic_run_query without the return of line 878: a list with an issue in it
\* does not end the loop.
epic_run_query_keeps_going ==
    /\ epc = "queries"
    /\ Len(jqlLog) < Len(jql_queries)
    /\ LET jql == jql_queries[Len(jqlLog) + 1]
       IN  \/ /\ jqlLog' = Append(jqlLog, [jql |-> jql, kind |-> "raise", docs |-> <<>>])
              /\ UNCHANGED <<documents, epc, eret>>
           \/ \E found \in SearchResults :
                /\ jqlLog' = Append(jqlLog, [jql |-> jql, kind |-> "return", docs |-> found])
                /\ documents' = found
                /\ UNCHANGED <<epc, eret>>
    /\ UNCHANGED <<clientVars, opVars, eargs, jql_queries, linkVars, <<fieldVars, acctVars, laterVars>>>>

\* Lines 873-881: one round of the loop: search_issues on the next candidate.
\* It raises (a typed error of _handle_error, which the loop drops) or returns
\* a list; a list with an issue in it ends the call.
epic_run_query ==
    /\ epc = "queries"
    /\ Len(jqlLog) < Len(jql_queries)
    /\ LET jql == jql_queries[Len(jqlLog) + 1]
       IN  \/ /\ jqlLog' = Append(jqlLog, [jql |-> jql, kind |-> "raise", docs |-> <<>>])
              /\ UNCHANGED <<documents, epc, eret>>
           \/ \E found \in SearchResults :
                /\ jqlLog' = Append(jqlLog, [jql |-> jql, kind |-> "return", docs |-> found])
                /\ documents' = found
                /\ IF found # <<>>
                   THEN epc' = "done" /\ eret' = EReturned(found)
                   ELSE epc' = epc /\ eret' = eret
    /\ UNCHANGED <<clientVars, opVars, eargs, jql_queries, linkVars, <<fieldVars, acctVars, laterVars>>>>

\* Lines 883-890: the loop is over.
epic_return ==
    /\ epc = "queries"
    /\ Len(jqlLog) = Len(jql_queries)
    /\ eret' = EReturned(documents)
    /\ epc' = "done"
    /\ UNCHANGED <<clientVars, opVars, eargs, jql_queries, documents, jqlLog, linkVars, <<fieldVars, acctVars, laterVars>>>>


(***************************************************************************)
(* IssueManager._get_account_id.                                           *)
(***************************************************************************)
\* The characters identifiers are made of: a letter, a digit, the hyphen and
\* a character that is none of these.

RECURSIVE StringsUpTo(_, _)
StringsUpTo(chars, n) ==
    IF n = 0 THEN {""}
    ELSE LET shorter == StringsUpTo(chars, n - 1)
         IN shorter \cup {q \o c : q \in shorter, c \in chars}

Identifiers == StringsUpTo({"a", "7", "-", "@"}, MaxIdLen)


\* The accountId of a user record: absent or None, an empty string, a value
\* that is not a string, or an account id.
Users ==
    { [accountId |-> a] : a \in
        { [t |-> "none", v |-> ""], [t |-> "str", v |-> ""], [t |-> "int", v |-> "42"],
          [t |-> "str", v |-> "acc-1"], [t |-> "str", v |-> "acc-2"] }
    }

\* What a user search may return.
UserLists == SeqsUpTo(Users, MaxUsers)

APending == [kind |-> "none", val |-> "", err |-> NoError]
AReturned(v) == [kind |-> "return", val |-> v, err |-> NoError]
ARaised(e) == [kind |-> "raise", val |-> "", err |-> e]


\* Line 114 without the replace: hyphens are not taken out before isalnum.
looks_like_account_id_no_replace(id) == id # "" /\ IsAlnum(id)

\* Line 114: assignee and assignee.replace("-", "").isalnum()
looks_like_account_id(id) == id # "" /\ IsAlnum(Replace(id, "-", ""))

\* Lines 133 and 153: account_id and isinstance(account_id, str)
usable_account_id(a) == a.t = "str" /\ a.v # ""

\* Lines 159-161.
resolution_error(id) ==
    PlainError("ValueError", "Could not resolve account ID for '" \o id \o "'")

\* Lines 113-116: an identifier of account-id shape is returned as it is.
\* The function keeps nothing between calls, so a call made after another
\* starts like the first; the later call is made with the same identifier.
get_account_id_call ==
    /\ \/ apc = "idle" /\ assignee' \in Identifiers
       \/ apc = "done" /\ assignee' = assignee
    /\ IF looks_like_account_id(assignee')
       THEN apc' = "done" /\ aret' = AReturned(assignee')
       ELSE apc' = "direct" /\ aret' = APending
    /\ alog' = <<>>
    /\ UNCHANGED <<clientVars, fieldVars, opVars, linkVars, epicVars, laterVars>>

\* Lines 120-143, with the exception that ends the direct lookup at once.
get_account_id_direct_no_fallback ==
    /\ apc = "direct"
    /\ \/ /\ alog' = Append(alog, [api |-> "direct", query |-> assignee,
                                   kind |-> "raise", users |-> <<>>])
          /\ apc' = "done"
          /\ aret' = ARaised(resolution_error(assignee))
       \/ \E users \in UserLists :
            /\ alog' = Append(alog, [api |-> "direct", query |-> assignee,
                                     kind |-> "return", users |-> users])
            /\ IF users # <<>> /\ usable_account_id(users[1].accountId)
               THEN apc' = "done" /\ aret' = AReturned(users[1].accountId.v)
               ELSE apc' = "fallback" /\ aret' = aret
    /\ UNCHANGED <<assignee, <<clientVars, fieldVars, opVars, linkVars, epicVars, laterVars>>>>

\* Lines 120-143: jira.user_find_by_user_string(query=assignee).  The first
\* user's account id is returned if it is usable; an exception, an empty list
\* and a first user without a usable id all lead to the fallback.
get_account_id_direct ==
    /\ apc = "direct"
    /\ \/ /\ alog' = Append(alog, [api |-> "direct", query |-> assignee,
                                   kind |-> "raise", users |-> <<>>])
          /\ apc' = "fallback"
          /\ aret' = aret
       \/ \E users \in UserLists :
            /\ alog' = Append(alog, [api |-> "direct", query |-> assignee,
                                     kind |-> "return", users |-> users])
            /\ IF users # <<>> /\ usable_account_id(users[1].accountId)
               THEN apc' = "done" /\ aret' = AReturned(users[1].accountId.v)
               ELSE apc' = "fallback" /\ aret' = aret
    /\ UNCHANGED <<assignee, <<clientVars, fieldVars, opVars, linkVars, epicVars, laterVars>>>>

\* Lines 145-161: jira.get_users_with_browse_permission_to_a_project(
\* username=assignee).  Its exception and the two ValueErrors of lines 149 and
\* 155 are caught at line 159 and replaced by the ValueError of line 161.
get_account_id_fallback ==
    /\ apc = "fallback"
    /\ \/ /\ alog' = Append(alog, [api |-> "perm", query |-> assignee,
                                   kind |-> "raise", users |-> <<>>])
          /\ aret' = ARaised(resolution_error(assignee))
       \/ \E users \in UserLists :
            /\ alog' = Append(alog, [api |-> "perm", query |-> assignee,
                                     kind |-> "return", users |-> users])
            /\ IF users # <<>> /\ usable_account_id(users[1].accountId)
               THEN aret' = AReturned(users[1].accountId.v)
               ELSE aret' = ARaised(resolution_error(assignee))
    /\ apc' = "done"
    /\ UNCHANGED <<assignee, <<clientVars, fieldVars, opVars, linkVars, epicVars, laterVars>>>>

NextAccount ==
    \/ get_account_id_call
    \/ get_account_id_direct
    \/ get_account_id_fallback

(***************************************************************************)
(* JiraClient._handle_error called on its own.                             *)
(***************************************************************************)
\* What getattr(e, "status_code", None) can give: the attribute is missing,
\* it is None, or it is an HTTP status.
Failure(hasStatus, status_code, message, response) ==
    [cls |-> "HTTPError", msg |-> message, hasStatus |-> hasStatus,
     status |-> status_code, response |-> response]


\* str(e): the messages of the unit tests and messages that hold several of
\* the words the mapper looks for, in mixed case.
Messages ==
    { "Unauthorized", "Authentication failed", "User does not have permission",
      "Issue does not exist", "Some other error", "Item Not Found",
      "No ACCESS: authentication data not found", "Access: board not found", "" }

ResponseBodies == {None, Some("body")}

Failures ==
    {Failure(FALSE, None, m, r) : m \in Messages, r \in ResponseBodies}
    \cup {Failure(TRUE, None, m, r) : m \in Messages, r \in ResponseBodies}
    \cup {Failure(TRUE, Some(c), m, r) : c \in {401, 403, 404, 500}, m \in Messages,
                                         r \in ResponseBodies}




\* Lines 110-173 on every input: every path of the function ends in a raise.
handle_error_runs ==
    { [args |-> [e |-> e, resource_type |-> rt, resource_id |-> rid],
       ret |-> [kind |-> "raise", err |-> _handle_error(e, rt, rid)]] :
      e \in Failures, rt \in {"issue", "epic"}, rid \in {"", "TEST-1"} }

handle_error_call ==
    /\ \E r \in handle_error_runs :
         /\ hargs' = r.args
         /\ hret' = r.ret
    /\ UNCHANGED <<clientVars, fieldVars, opVars, linkVars, epicVars, acctVars, managerVars, transitionVars, durationVars, pureVars>>


(***************************************************************************)
(* The transport collaborator as the issue manager sees it: a call of the  *)
(* jira client returns or raises.                                          *)
(***************************************************************************)
TransportErrors ==
    UpstreamErrors
    \cup { HTTPError(403, "Forbidden"),
           HTTPError(400, "Transition is not valid"),
           HTTPError(400, "Field 'customfield_10011' is required"),
           HTTPError(400, "customfield_10011 is not on the screen") }

Ok == [kind |-> "ok", err |-> NoError]
Fail(e) == [kind |-> "raise", err |-> e]
UpstreamOutcomes == {Ok} \cup {Fail(e) : e \in TransportErrors}

(***************************************************************************)
(* IssueManager.get_available_transitions.                                 *)
(*                                                                         *)
(* A JSON value is [t, v]: t is its type ("absent" when the key is not in  *)
(* the record), v its text.  A transition of the response is a record with *)
(* the keys id, name, to, to_status and status; to_name is to["name"] when *)
(* to is an object.  An entry that is not an object has isdict = FALSE.    *)
(***************************************************************************)
Absent == [t |-> "absent", v |-> ""]
Null == [t |-> "null", v |-> ""]
Str(s) == [t |-> "str", v |-> s]
Num(digits) == [t |-> "int", v |-> digits]
Dict == [t |-> "dict", v |-> ""]

\* dict.get(key): None when the key is missing.
Get(value) == IF value.t = "absent" THEN Null ELSE value

TransitionRecord(id, name, to, to_name, to_status, status) ==
    [isdict |-> TRUE, id |-> id, name |-> name, to |-> to, to_name |-> to_name,
     to_status |-> to_status, status |-> status]


\* The spellings of the target: no `to`, `to` null, `to` a string, `to` an
\* object without and with a name.
ToSpellings ==
    { [to |-> Absent, to_name |-> Absent], [to |-> Null, to_name |-> Absent],
      [to |-> Str("Done"), to_name |-> Absent], [to |-> Dict, to_name |-> Absent],
      [to |-> Dict, to_name |-> Str("Done")] }


TransitionEntries ==
    { TransitionRecord(Str("10"), Str("Close"), s.to, s.to_name, to_status, status) :
        s \in ToSpellings, to_status \in {Absent, Str("Done")},
        status \in {Absent, Str("Open")} }
    \cup { TransitionRecord(id, Str("Close"), s.to, s.to_name, Absent, Absent) :
            id \in {Absent, Num("10")}, s \in ToSpellings }
    \cup { TransitionRecord(Str("11"), Absent, Absent, Absent, Str("Done"), Absent) }
    \cup { [isdict |-> FALSE, id |-> Absent, name |-> Absent, to |-> Absent,
             to_name |-> Absent, to_status |-> Absent, status |-> Absent] }

\* What jira.get_issue_transitions returns: t is the type of the response,
\* has_key says that a dict has the key "transitions", value is the type of
\* transitions_data["transitions"] and items its elements when it is a list
\* (the elements of the response itself when the response is a list).
Response(t, has_key, value, items) ==
    [t |-> t, has_key |-> has_key, value |-> value, items |-> items]

ResponsesUpTo(n) ==
    {Response("dict", TRUE, "list", items) : items \in SeqsUpTo(TransitionEntries, n)}
    \cup {Response("list", FALSE, "", items) : items \in SeqsUpTo(TransitionEntries, n)}
    \cup { Response("dict", FALSE, "", <<>>), Response("dict", TRUE, "null", <<>>),
           Response("dict", TRUE, "dict", <<>>), Response("dict", TRUE, "str", <<>>),
           Response("null", FALSE, "", <<>>), Response("str", FALSE, "", <<>>) }


TReturned(v) == [kind |-> "return", val |-> v, err |-> NoError]
TRaised(e) == [kind |-> "raise", val |-> <<>>, err |-> e]

\* Lines 650-660, taking whatever `to` holds when it is not an object.
to_status_of_any_to(transition) ==
    IF transition.to.t # "absent" THEN transition.to
    ELSE IF transition.to_status.t # "absent" THEN transition.to_status
    ELSE IF transition.status.t # "absent" THEN transition.status
    ELSE Null

\* Lines 650-660.
to_status_of(transition) ==
    IF transition.to.t # "absent"
    THEN IF transition.to.t = "dict" THEN Get(transition.to_name)
         ELSE transition.to
    ELSE IF transition.to_status.t # "absent" THEN transition.to_status
    ELSE IF transition.status.t # "absent" THEN transition.status
    ELSE Null

\* Lines 646-662: the dict appended for one transition.
canonical_transition(transition) ==
    [id |-> Get(transition.id), name |-> Get(transition.name),
     to_status |-> to_status_of(transition)]

\* Lines 641-662: the loop, which skips what is not a dict.
RECURSIVE normalize_transitions(_)
normalize_transitions(transitions) ==
    IF transitions = <<>> THEN <<>>
    ELSE LET rest == normalize_transitions(Tail(transitions))
         IN IF Head(transitions).isdict
            THEN <<canonical_transition(Head(transitions))>> \o rest
            ELSE rest

\* Iterating a value that is not iterable (line 641) raises TypeError.
not_iterable_error(value) ==
    PlainError("TypeError",
               IF value = "null" THEN "'NoneType' object is not iterable"
               ELSE "'int' object is not iterable")

\* Lines 625-667.  The keys of a dict and the characters of a string are
\* strings, which the loop skips.
get_available_transitions(issue_key, outcome, data) ==
    IF outcome.kind = "raise"
    THEN TRaised(_handle_error(outcome.err, "transitions", issue_key))
    ELSE IF data.t = "dict" /\ data.has_key
         THEN IF data.value = "list" THEN TReturned(normalize_transitions(data.items))
              ELSE IF data.value \in {"dict", "str"} THEN TReturned(<<>>)
              ELSE TRaised(_handle_error(not_iterable_error(data.value),
                                         "transitions", issue_key))
         ELSE IF data.t = "list" THEN TReturned(normalize_transitions(data.items))
         ELSE TReturned(<<>>)

NoResponse == Response("null", FALSE, "", <<>>)


\* The function keeps nothing between calls: one call is followed.
\* The call whose upstream call raises.
get_available_transitions_failed ==
    /\ tret.kind = "none"
    /\ \E e \in TransportErrors, issue_key \in IssueKeys :
         /\ transitions_data' = [kind |-> "raise", err |-> e, data |-> NoResponse]
         /\ tret' = get_available_transitions(issue_key, Fail(e), NoResponse)
    /\ UNCHANGED <<clientVars, fieldVars, opVars, linkVars, epicVars, acctVars, mapperVars, managerVars, durationVars, pureVars>>

\* The call whose upstream call returns a response.
get_available_transitions_call ==
    /\ tret.kind = "none"
    /\ \E data \in ResponsesUpTo(MaxTransitions), issue_key \in IssueKeys :
         /\ transitions_data' = [kind |-> "ok", err |-> NoError, data |-> data]
         /\ tret' = get_available_transitions(issue_key, Ok, data)
    /\ UNCHANGED <<clientVars, fieldVars, opVars, linkVars, epicVars, acctVars, mapperVars, managerVars, durationVars, pureVars>>

NextTransitions ==
    \/ get_available_transitions_call
    \/ get_available_transitions_failed

(***************************************************************************)
(* IssueManager._parse_time_spent.                                         *)
(***************************************************************************)
\* Line 934-939: the units dict.
units ==
    [w |-> 7 * 24 * 60 * 60, d |-> 24 * 60 * 60, h |-> 60 * 60, m |-> 60]


IsDigit(c) == CharIn(c, Digits)

\* int(value) for a string of decimal digits.
RECURSIVE ParseInt(_)
ParseInt(s) ==
    IF s = "" THEN 0
    ELSE ParseInt(SubSeq(s, 1, Len(s) - 1)) * 10
         + (IndexOf(SubSeq(s, Len(s), Len(s)), Digits) - 1)

\* The end of the longest run of digits of s that starts at i.
RECURSIVE DigitsEnd(_, _)
DigitsEnd(s, i) ==
    IF i < Len(s) /\ IsDigit(SubSeq(s, i + 1, i + 1)) THEN DigitsEnd(s, i + 1) ELSE i

\* re.findall(r"(\d+)([wdhm])", s) from position i on: the matches, left to
\* right and not overlapping, as <<value, unit>>.  \d+ is greedy and a
\* shorter run of digits is followed by a digit, never by a unit, so a match
\* that starts at a digit is the whole run and the letter after it.
RECURSIVE findall(_, _)
findall(s, i) ==
    IF i > Len(s) THEN <<>>
    ELSE IF IsDigit(SubSeq(s, i, i))
         THEN LET j == DigitsEnd(s, i)
              IN IF j < Len(s) /\ CharIn(SubSeq(s, j + 1, j + 1), "wdhm")
                 THEN <<[value |-> SubSeq(s, i, j), unit |-> SubSeq(s, j + 1, j + 1)]>>
                      \o findall(s, j + 2)
                 ELSE findall(s, i + 1)
         ELSE findall(s, i + 1)

\* Lines 949-952 with = in the place of +=: the last match only.
total_seconds_last_only(matches) ==
    IF matches = <<>> THEN 0
    ELSE ParseInt(matches[Len(matches)].value) * units[matches[Len(matches)].unit]

\* Lines 949-952.
RECURSIVE total_seconds(_)
total_seconds(matches) ==
    IF matches = <<>> THEN 0
    ELSE ParseInt(Head(matches).value) * units[Head(matches).unit]
         + total_seconds(Tail(matches))

DRaised(e) == [kind |-> "raise", val |-> 0, err |-> e]

\* Lines 930-954.
_parse_time_spent(text) ==
    IF text = ""
    THEN DRaised(PlainError("ValueError", "Time spent string cannot be empty"))
    ELSE LET matches == findall(Lower(text), 1)
         IN IF matches = <<>>
            THEN DRaised(PlainError("ValueError",
                    "Invalid time format: " \o text
                        \o ". Expected format like '1h 30m', '1d', etc."))
            ELSE [kind |-> "return", val |-> total_seconds(matches), err |-> NoError]

\* The words a time string is written from: tokens, in either case of the
\* unit letter, and words that hold no token.
OtherWords == {"invalid", "7", "x"}
TimeWords == {"1h", "30m", "2d", "1w", "3H", "45M"} \cup OtherWords

\* " ".join(ws)
RECURSIVE JoinWords(_)
JoinWords(ws) ==
    IF ws = <<>> THEN ""
    ELSE IF Len(ws) = 1 THEN ws[1]
    ELSE ws[1] \o " " \o JoinWords(Tail(ws))


\* The function keeps nothing between calls: one call is followed.
parse_time_spent_call ==
    /\ dret.kind = "none"
    /\ \E ws \in SeqsUpTo(TimeWords, MaxWords) :
         /\ words' = ws
         /\ time_spent' = JoinWords(ws)
         /\ dret' = _parse_time_spent(JoinWords(ws))
    /\ UNCHANGED <<clientVars, fieldVars, opVars, linkVars, epicVars, acctVars, mapperVars, managerVars, transitionVars, pureVars>>


(***************************************************************************)
(* IssueManager._parse_date.                                               *)
(*                                                                         *)
(* datetime.fromisoformat is modelled on the texts the model feeds it: a   *)
(* ten-character date, alone or followed by a separator, a time written    *)
(* HH:MM:SS.fff and an offset.  Every version of the library takes the     *)
(* offset written [+-]HH:MM; from Python 3.11 on it also takes [+-]HHMM    *)
(* and Z.  basic_offsets tells which library the interpreter has.          *)
(***************************************************************************)
\* str.isdigit()
AllDigits(s) == s # "" /\ \A i \in 1..Len(s) : IsDigit(SubSeq(s, i, i))

\* datetime.fromisoformat(s): [ok, year, month, day]; ok is FALSE when it
\* raises ValueError.
fromisoformat(s, basic) ==
    LET Invalid == [ok |-> FALSE, year |-> 0, month |-> 0, day |-> 0]
        Num2(t, i) == ParseInt(SubSeq(t, i, i + 1))
        IsNum2(t, i) == Len(t) > i /\ AllDigits(SubSeq(t, i, i + 1))
        year == ParseInt(SubSeq(s, 1, 4))
        month == Num2(s, 6)
        day == Num2(s, 9)
        leap == year % 4 = 0 /\ (year % 100 # 0 \/ year % 400 = 0)
        days == IF month = 2 THEN (IF leap THEN 29 ELSE 28)
                ELSE IF month \in {4, 6, 9, 11} THEN 30 ELSE 31
        date_ok ==
            /\ Len(s) >= 10
            /\ AllDigits(SubSeq(s, 1, 4)) /\ SubSeq(s, 5, 5) = "-"
            /\ IsNum2(s, 6) /\ SubSeq(s, 8, 8) = "-" /\ IsNum2(s, 9)
            /\ year >= 1 /\ month \in 1..12 /\ day \in 1..days
        time == SubSeq(s, 12, 23)
        time_ok ==
            /\ Len(s) >= 23
            /\ IsNum2(time, 1) /\ SubSeq(time, 3, 3) = ":"
            /\ IsNum2(time, 4) /\ SubSeq(time, 6, 6) = ":"
            /\ IsNum2(time, 7) /\ SubSeq(time, 9, 9) = "."
            /\ AllDigits(SubSeq(time, 10, 12))
            /\ Num2(time, 1) < 24 /\ Num2(time, 4) < 60 /\ Num2(time, 7) < 60
        tz == SubSeq(s, 24, Len(s))
        Sign(t) == Len(t) > 0 /\ SubSeq(t, 1, 1) \in {"+", "-"}
        \* timezone(timedelta(hours, minutes)): strictly less than a day
        tz_ok ==
            \/ tz = ""
            \/ /\ Len(tz) = 6 /\ Sign(tz) /\ IsNum2(tz, 2)
               /\ SubSeq(tz, 4, 4) = ":" /\ IsNum2(tz, 5)
               /\ Num2(tz, 2) * 60 + Num2(tz, 5) < 24 * 60
            \/ /\ basic
               /\ \/ tz = "Z"
                  \/ /\ Len(tz) = 5 /\ Sign(tz) /\ AllDigits(SubSeq(tz, 2, 5))
                     /\ Num2(tz, 2) * 60 + Num2(tz, 4) < 24 * 60
    IN IF date_ok /\ (Len(s) = 10 \/ (time_ok /\ tz_ok))
       THEN [ok |-> TRUE, year |-> year, month |-> month, day |-> day]
       ELSE Invalid

\* date.strftime("%Y-%m-%d")
strftime(date) ==
    LET Pad(n, width) ==
            LET text == ToString(n)
            IN SubSeq("0000", 1, width - Len(text)) \o text
    IN Pad(date.year, 4) \o "-" \o Pad(date.month, 2) \o "-" \o Pad(date.day, 2)

\* Lines 84-91 with the colon of line 91 left out.
normalize_offset_no_colon(date_str) ==
    IF Contains(date_str, "+0000") THEN Replace(date_str, "+0000", "+00:00")
    ELSE IF Contains(date_str, "-0000") THEN Replace(date_str, "-0000", "+00:00")
    ELSE date_str

\* Lines 84-91: the text after the timezone formats have been handled.
normalize_offset(date_str) ==
    LET n == Len(date_str)
    IN IF Contains(date_str, "+0000") THEN Replace(date_str, "+0000", "+00:00")
       ELSE IF Contains(date_str, "-0000") THEN Replace(date_str, "-0000", "+00:00")
       ELSE IF /\ n >= 5
               /\ SubSeq(date_str, n - 4, n - 4) \in {"+", "-"}
               /\ AllDigits(SubSeq(date_str, n - 3, n))
            THEN SubSeq(date_str, 1, n - 2) \o ":" \o SubSeq(date_str, n - 1, n)
            ELSE date_str

\* Lines 80-98: [kind, val, parsed]; parsed is FALSE when the except branch
\* of line 96 returned.  The name date_str is rebound by lines 84-91, so
\* line 98 returns the rebound text.
_parse_date(text, basic) ==
    IF text = "" THEN [kind |-> "return", val |-> "", parsed |-> FALSE]
    ELSE LET date_str == normalize_offset(text)
             date == fromisoformat(Replace(date_str, "Z", "+00:00"), basic)
         IN IF date.ok
            THEN [kind |-> "return", val |-> strftime(date), parsed |-> TRUE]
            ELSE [kind |-> "return", val |-> date_str, parsed |-> FALSE]

\* The timestamps the function is given: a date, a time and an offset, each
\* valid or not, and texts that are no timestamp.
Timestamps ==
    { [date |-> d, time |-> t, offset |-> o] :
        d \in {"2023-01-01", "2024-02-29", "2023-02-30", "2023-13-01"},
        t \in {"T12:00:00.000", "T23:59:59.999", "T25:00:00.000"},
        o \in {"+0000", "-0000", "Z", "+00:00", "+0900", "-0530", "+2359",
               "+2400", "-9900", "", "+09:00", " UTC"} }
    \cup { [date |-> text, time |-> "", offset |-> ""] :
             text \in {"garbage", "2023-01-01", "not a date+0000", "-0000", "Z",
                       "1+0900"} }

\* The function keeps nothing between calls: one call is followed.
parse_date_call ==
    /\ pret.kind = "none"
    /\ \E basic \in BOOLEAN, s \in Timestamps :
         /\ basic_offsets' = basic
         /\ stamp' = s
         /\ date_arg' = s.date \o s.time \o s.offset
         /\ pret' = _parse_date(s.date \o s.time \o s.offset, basic)
    /\ UNCHANGED <<clientVars, fieldVars, opVars, linkVars, epicVars, acctVars,
                   mapperVars, managerVars, transitionVars, durationVars,
                   classifyVars, createVars, status_run, constructVars>>

(***************************************************************************)
(* The classification of get_jira_field_ids on its own: the map built from *)
(* one catalog.                                                            *)
(***************************************************************************)
\* The catalogs classified: an entry for each rule of lines 207-267, entries
\* that match more than one rule or none, and entries whose name is one word
\* and whose schema.custom mentions epic.
ClassifiedCatalogs ==
    SeqsUpTo(
        { FieldEntry("customfield_10014", "Epic Link", "com.pyxis.greenhopper.jira:gh-epic-link"),
          FieldEntry("customfield_10011", "Epic Name", "com.pyxis.greenhopper.jira:gh-epic-label"),
          FieldEntry("parent", "Parent", ""),
          FieldEntry("customfield_10012", "Epic Status", ""),
          FieldEntry("customfield_10013", "Epic Colour", "com.pyxis.greenhopper.jira:gh-epic-color"),
          FieldEntry("priority", "Priority", ""),
          FieldEntry("customfield_10020", "Sprint", "com.pyxis.greenhopper.jira:gh-sprint"),
          FieldEntry("customfield_10016", "Story Points", ""),
          FieldEntry("customfield_10030", "Epic Theme", ""),
          FieldEntry("customfield_10040", "Epic Name Sprint", ""),
          FieldEntry("customfield_10098", "Status", "com.pyxis.greenhopper.jira:gh-epic-status"),
          FieldEntry("customfield_10099", "Link", "com.example.plugin:epic-board"),
          FieldEntry("summary", "Summary", "") },
        MaxCatalogLen)

\* Lines 191-271 with jira.fields() returning the catalog.  The function
\* keeps nothing but the cache: one call on an empty cache is followed.
classify_call ==
    /\ cret.kind = "none"
    /\ \E fields \in ClassifiedCatalogs :
         /\ catalog' = fields
         /\ cret' = [kind |-> "return", map |-> build_field_ids(fields)]
    /\ UNCHANGED <<clientVars, fieldVars, opVars, linkVars, epicVars, acctVars,
                   mapperVars, managerVars, transitionVars, durationVars, dateVars,
                   createVars, status_run, constructVars>>

(***************************************************************************)
(* The public operations of IssueManager, each with the upstream calls it  *)
(* makes.  A run of an operation is [ret, calls]: how it ended and the     *)
(* calls of the jira client it made, in order.  The responses that do not  *)
(* raise are taken to have the keys the code reads.                        *)
(***************************************************************************)
OReturned == [kind |-> "return", val |-> <<>>, err |-> NoError]
ORaised(e) == [kind |-> "raise", val |-> <<>>, err |-> e]

Run(ret, calls) == [ret |-> ret, calls |-> calls]
Call(api, outcome) == [api |-> api, kind |-> outcome.kind, err |-> outcome.err]

\* An operation of one upstream call inside try/except with _handle_error.
SingleCall(api, resource_type, resource_id) ==
    { Run(IF o.kind = "ok" THEN OReturned
          ELSE ORaised(_handle_error(o.err, resource_type, resource_id)),
          <<Call(api, o)>>) : o \in UpstreamOutcomes }


\* Lines 181-272: jira.issue, then get_issue_comments when comment_limit is
\* a positive number, all inside one try whose handler is _handle_error.
get_issue(issue_key, with_comments) ==
    { Run(ORaised(_handle_error(e, "issue", issue_key)), <<Call("issue", Fail(e))>>) :
        e \in TransportErrors }
    \cup
    IF ~with_comments THEN {Run(OReturned, <<Call("issue", Ok)>>)}
    ELSE { Run(IF c.ret.kind = "return" THEN OReturned
               ELSE ORaised(_handle_error(c.ret.err, "issue", issue_key)),
               <<Call("issue", Ok)>> \o c.calls) :
           \* get_issue_comments, lines 562-579
           c \in SingleCall("issue_get_comments", "comments", issue_key) }

\* Lines 142 and 159 do not look at the exception of a user search: one
\* failure stands for all.
UserSearchErrors == {HTTPError(403, "Forbidden")}
UserSearchResults == SeqsUpTo(Users, 1)

\* Lines 113-161 as one computation: [ret, calls].
_get_account_id(id) ==
    IF looks_like_account_id(id) THEN {Run(AReturned(id), <<>>)}
    ELSE LET found(users) == users # <<>> /\ usable_account_id(users[1].accountId)
             direct == <<Call("user_find_by_user_string", Ok)>>
             fallback(calls) ==
                 { Run(ARaised(resolution_error(id)),
                       calls \o <<Call("get_users_with_browse_permission_to_a_project",
                                       Fail(e))>>) : e \in UserSearchErrors }
                 \cup
                 { Run(IF found(users) THEN AReturned(users[1].accountId.v)
                       ELSE ARaised(resolution_error(id)),
                       calls \o <<Call("get_users_with_browse_permission_to_a_project",
                                       Ok)>>) : users \in UserSearchResults }
         IN { Run(AReturned(users[1].accountId.v), direct) :
                users \in {u \in UserSearchResults : found(u)} }
            \cup (IF \E u \in UserSearchResults : ~found(u) THEN fallback(direct) ELSE {})
            \cup UNION { fallback(<<Call("user_find_by_user_string", Fail(e))>>) :
                           e \in UserSearchErrors }

\* re.search(r"(?:Field '(customfield_\d+)'|'(customfield_\d+)' cannot be
\* set)", error_msg), lines 376-380: the field id of the leftmost match, ""
\* when there is none.
RECURSIVE missing_field_match(_, _)
missing_field_match(error_msg, i) ==
    IF i + 13 > Len(error_msg) THEN ""
    ELSE LET j == DigitsEnd(error_msg, i + 12)
             quoted == /\ SubSeq(error_msg, i, i + 12) = "'customfield_"
                       /\ j > i + 12
                       /\ j < Len(error_msg)
                       /\ SubSeq(error_msg, j + 1, j + 1) = "'"
             after_field == i > 6 /\ SubSeq(error_msg, i - 6, i - 1) = "Field "
             cannot_be_set == /\ j + 15 <= Len(error_msg)
                              /\ SubSeq(error_msg, j + 2, j + 15) = " cannot be set"
         IN IF quoted /\ (after_field \/ cannot_be_set)
            THEN SubSeq(error_msg, i + 1, j)
            ELSE missing_field_match(error_msg, i + 1)

\* Lines 370-396: the handler of create_issue; the exception it raises.
create_except(e, issue_type) ==
    IF Lower(issue_type) = "epic" /\ Contains(e.msg, "customfield_")
    THEN LET field_id == missing_field_match(e.msg, 1)
         IN IF field_id # ""
            THEN JiraError("JiraFieldError", "Missing required Epic field: " \o field_id,
                           None, None)
            ELSE JiraError("JiraFieldError", "Epic creation failed: " \o e.msg, None, None)
    ELSE _handle_error(e, "issue", "creation")


\* Lines 365-396: jira.create_issue and get_issue inside one try.
create_and_read(issue_type, calls) ==
    { Run(ORaised(create_except(e, issue_type)), calls \o <<Call("create_issue", Fail(e))>>) :
        e \in TransportErrors }
    \cup
    { Run(IF g.ret.kind = "return" THEN OReturned
          ELSE ORaised(create_except(g.ret.err, issue_type)),
          calls \o <<Call("create_issue", Ok)>> \o g.calls) :
        g \in get_issue("PROJ-9", TRUE) }

\* Lines 346-349: _get_account_id is called outside every try, so what it
\* raises leaves create_issue as it is.  A run is [ret, calls, account]:
\* account is the account id put in the fields, "" when there is none.
resolve_assignee(assigned, issue_type) ==
    LET created == create_and_read(issue_type, <<>>)
    IN IF assigned = ""
       THEN { [ret |-> r.ret, calls |-> r.calls, account |-> ""] : r \in created }
       ELSE UNION { IF a.ret.kind = "raise"
                    THEN {[ret |-> ORaised(a.ret.err), calls |-> a.calls, account |-> ""]}
                    ELSE { [ret |-> r.ret, calls |-> a.calls \o r.calls,
                            account |-> a.ret.val] : r \in created } :
                    a \in _get_account_id(assigned) }

\* The arguments the operations are called with.
Assignees == {"", "abc-123", "user@example.com"}

\* What follows the building of the fields does not depend on the cache of
\* the client: it is computed once for each issue type and assignee.
assignee_runs ==
    [issue_type \in {"Task", "Epic"}, assigned \in Assignees |->
        resolve_assignee(assigned, issue_type)]

\* Lines 301-396.  For an Epic get_jira_field_ids is called first and what it
\* raises is swallowed (lines 342-344).  A run is
\* [ret, calls, cache, fetched, ids, account]: ids is what get_jira_field_ids
\* did, as [kind, map], of kind "none" when it was not called.
create_issue(issue_type, assigned, cache) ==
    LET rest == assignee_runs[issue_type, assigned]
    IN IF Lower(issue_type) = "epic"
       THEN UNION { { [ret |-> r.ret,
                       calls |-> (IF o.fetched = 0 THEN <<>>
                                  ELSE <<[api |-> "fields",
                                          kind |-> IF o.kind = "return" THEN "ok" ELSE "raise",
                                          err |-> o.err]>>) \o r.calls,
                       cache |-> o.cache, fetched |-> o.fetched,
                       ids |-> [kind |-> o.kind, map |-> o.map],
                       account |-> r.account] : r \in rest } :
                    o \in field_ids_outcomes(cache) }
       ELSE { [ret |-> r.ret, calls |-> r.calls, cache |-> cache, fetched |-> 0,
               ids |-> [kind |-> "none", map |-> EmptyMap],
               account |-> r.account] : r \in rest }

\* The summary create_issue is called with.
Summary == "Fix login"

\* The keyword arguments create_issue is called with: at most MaxKwargs of
\* these.
CreateKwargs ==
    LET given == [epic_name |-> "Platform", epic_color |-> "blue", epic_colour |-> "red",
                  customfield_10011 |-> "Raw name", customfield_10050 |-> "5",
                  assignee |-> "bob"]
    IN { [key \in keys |-> given[key]] :
         keys \in {k \in SUBSET (DOMAIN given) : Cardinality(k) <= MaxKwargs} }

\* The fields without the branch for an Epic.
create_fields_without_epic(summary, issue_type, account, kwargs, ids) ==
    [key \in {"project", "summary", "issuetype", "description"}
              \cup (IF account # "" THEN {"assignee"} ELSE {})
              \cup (DOMAIN kwargs \ {"assignee"}) |->
        IF key \in DOMAIN kwargs /\ key # "assignee" THEN kwargs[key]
        ELSE CASE key = "project" -> "PROJ"
               [] key = "summary" -> summary
               [] key = "issuetype" -> issue_type
               [] key = "description" -> ""
               [] key = "assignee" -> account]

\* Lines 304-363: the fields create_issue passes to jira.create_issue, as a
\* map from field to text.  The project stands for {"key": project_key},
\* the issue type for {"name": issue_type} and the account id for
\* {"accountId": account_id}; the description is the empty default.  ids is
\* what get_jira_field_ids did: when it raised, the try of lines 313-344 was
\* left at its first statement.
create_fields(summary, issue_type, account, kwargs, ids) ==
    LET Without(m, keys) == [x \in (DOMAIN m) \ keys |-> m[x]]
        Update(m, changes) == [x \in (DOMAIN m) \cup (DOMAIN changes) |->
                                 IF x \in DOMAIN changes THEN changes[x] ELSE m[x]]
        Given(m, key) == key \in DOMAIN m /\ m[key] # ""
        fields0 == [key \in {"project", "summary", "issuetype", "description"} |->
                      CASE key = "project" -> "PROJ"
                        [] key = "summary" -> summary
                        [] key = "issuetype" -> issue_type
                        [] key = "description" -> ""]
        discovered == Lower(issue_type) = "epic" /\ ids.kind = "return"
        has_name == discovered /\ "epic_name" \in DOMAIN ids.map
        fields1 == IF has_name
                   THEN Put(fields0, ids.map["epic_name"],
                            IF "epic_name" \in DOMAIN kwargs THEN kwargs["epic_name"]
                            ELSE summary)
                   ELSE fields0
        kwargs1 == IF has_name THEN Without(kwargs, {"epic_name"}) ELSE kwargs
        has_color == discovered /\ "epic_color" \in DOMAIN ids.map
        fields2 == IF has_color
                   THEN Put(fields1, ids.map["epic_color"],
                            IF Given(kwargs1, "epic_color") THEN kwargs1["epic_color"]
                            ELSE IF Given(kwargs1, "epic_colour") THEN kwargs1["epic_colour"]
                            ELSE "green")
                   ELSE fields1
        kwargs2 == IF has_color
                   THEN Without(kwargs1, IF Given(kwargs1, "epic_color") THEN {"epic_color"}
                                         ELSE {"epic_color", "epic_colour"})
                   ELSE kwargs1
        fields3 == IF discovered
                   THEN Update(fields2,
                               [key \in {k \in DOMAIN kwargs2 :
                                          Len(k) >= 12 /\ SubSeq(k, 1, 12) = "customfield_"} |->
                                  kwargs2[key]])
                   ELSE fields2
        fields4 == IF account # "" THEN Put(fields3, "assignee", account) ELSE fields3
    IN Update(fields4, Without(kwargs2, {"assignee"}))

\* Lines 742-749: the handler of transition_issue; the exception it raises.
\* str(transition_id) is the text of the id.
transition_except(e, issue_key, transition_id) ==
    LET error_msg == "Error transitioning issue " \o issue_key
                     \o " with transition ID " \o transition_id.v \o ": " \o e.msg
        low == Lower(e.msg)
    IN  IF Contains(low, "does not exist") \/ Contains(low, "not found")
        THEN JiraError("JiraResourceNotFoundError", error_msg, None, None)
        ELSE IF Contains(low, "workflow") \/ Contains(low, "transition")
        THEN JiraError("JiraWorkflowError", error_msg, None, None)
        ELSE JiraError("JiraAPIError", error_msg, None, None)

\* Lines 737-749: jira.issue_transition and get_issue inside the try.
transition_and_read(issue_key, transition_id, calls) ==
    { Run(ORaised(transition_except(e, issue_key, transition_id)),
          calls \o <<Call("issue_transition", Fail(e))>>) : e \in TransportErrors }
    \cup
    { Run(IF g.ret.kind = "return" THEN OReturned
          ELSE ORaised(transition_except(g.ret.err, issue_key, transition_id)),
          calls \o <<Call("issue_transition", Ok)>> \o g.calls) :
        g \in get_issue(issue_key, TRUE) }

\* Lines 689-749.  assignee is fields["assignee"], "" when fields has none;
\* an assignee that cannot be resolved is left out (lines 713-717).
transition_issue(issue_key, transition_id, assigned) ==
    IF assigned = "" THEN transition_and_read(issue_key, transition_id, <<>>)
    ELSE UNION { transition_and_read(issue_key, transition_id, a.calls) :
                 a \in _get_account_id(assigned) }


\* Lines 625-667 with the upstream call: [ret, calls].
available_transitions(issue_key) ==
    { Run(get_available_transitions(issue_key, Fail(e), NoResponse),
          <<Call("get_issue_transitions", Fail(e))>>) : e \in TransportErrors }
    \cup
    { Run(get_available_transitions(issue_key, Ok, data),
          <<Call("get_issue_transitions", Ok)>>) : data \in ResponsesUpTo(1) }

\* repr() of a value of a transition, and of a list of them (line 457).
PyRepr(value) ==
    IF value.t = "str" THEN "'" \o value.v \o "'"
    ELSE IF value.t = "null" THEN "None"
    ELSE value.v

RECURSIVE ReprItems(_)
ReprItems(values) ==
    IF values = <<>> THEN ""
    ELSE IF Len(values) = 1 THEN PyRepr(values[1])
    ELSE PyRepr(values[1]) \o ", " \o ReprItems(Tail(values))

\* bool(value) of a JSON value.
Truth(value) ==
    \/ value.t = "str" /\ value.v # ""
    \/ value.t = "int" /\ ParseInt(value.v) # 0
    \/ value.t = "dict"

\* Lines 440-445: the index of the first transition whose to_status is the
\* requested status in any letter case, 0 when there is none.
RECURSIVE matching_transition(_, _, _)
matching_transition(transitions, requested_status, i) ==
    IF i > Len(transitions) THEN 0
    ELSE IF /\ transitions[i].to_status.t = "str"
            /\ Lower(transitions[i].to_status.v) = Lower(requested_status)
         THEN i
         ELSE matching_transition(transitions, requested_status, i + 1)

\* Lines 456-458.
no_transition_error(requested_status, transitions) ==
    JiraError("JiraWorkflowError",
              "Cannot transition issue to status '" \o requested_status
                  \o "'. Available status transitions: ["
                  \o ReprItems([i \in 1..Len(transitions) |-> transitions[i].to_status])
                  \o "]",
              None, None)

\* Lines 427-458: the branch of update_issue for a requested status.  What
\* get_available_transitions raises is outside every try of update_issue.
\* A run is [ret, calls, listing, chosen]: the list get_available_transitions
\* returned and the id handed to transition_issue, when there is one.
update_status(issue_key, requested_status) ==
    UNION { IF t.ret.kind = "raise"
            THEN {[ret |-> ORaised(t.ret.err), calls |-> t.calls,
                   listing |-> None, chosen |-> None]}
            ELSE LET i == matching_transition(t.ret.val, requested_status, 1)
                 IN IF i > 0 /\ Truth(t.ret.val[i].id)
                    THEN { [ret |-> r.ret, calls |-> t.calls \o r.calls,
                            listing |-> Some(t.ret.val), chosen |-> Some(t.ret.val[i].id)] :
                           r \in transition_issue(issue_key, t.ret.val[i].id, "") }
                    ELSE {[ret |-> ORaised(no_transition_error(requested_status, t.ret.val)),
                           calls |-> t.calls, listing |-> Some(t.ret.val), chosen |-> None]} :
            t \in available_transitions(issue_key) }

\* Lines 460-465.
update_fields(issue_key) ==
    { [ret |-> ORaised(_handle_error(e, "issue", issue_key)),
       calls |-> <<Call("issue_update", Fail(e))>>,
       listing |-> None, chosen |-> None] : e \in TransportErrors }
    \cup
    { [ret |-> IF g.ret.kind = "return" THEN OReturned
               ELSE ORaised(_handle_error(g.ret.err, "issue", issue_key)),
       calls |-> <<Call("issue_update", Ok)>> \o g.calls,
       listing |-> None, chosen |-> None] : g \in get_issue(issue_key, TRUE) }

\* Lines 415-465.  requested_status is fields["status"], "" when fields has
\* no status.
update_issue(issue_key, requested_status) ==
    IF requested_status # "" THEN update_status(issue_key, requested_status)
    ELSE update_fields(issue_key)

\* Lines 482-487.
delete_issue(issue_key) == SingleCall("delete_issue", "issue", issue_key)

\* Lines 513-545.
search_issues(jql) == SingleCall("jql", "issues", "search '" \o jql \o "'")

\* Lines 596-609.
add_comment(issue_key) == SingleCall("issue_add_comment", "comment", issue_key)

\* Lines 1057-1079.
get_worklogs(issue_key) == SingleCall("issue_get_worklog", "worklogs", issue_key)

\* client.py lines 279-297: jira.myself() and the test of the account id
\* inside one try whose handler is _handle_error.  account_id is
\* myself.get("accountId").
get_current_user_account_id(account_id) ==
    { Run(ORaised(_handle_error(e, "user", "current")), <<Call("myself", Fail(e))>>) :
        e \in TransportErrors }
    \cup
    { Run(IF account_id.t = "none" \/ (account_id.t = "str" /\ account_id.v = "")
          THEN ORaised(_handle_error(
                   JiraError("JiraAuthenticationError",
                             "Unable to get account ID from user profile", None, None),
                   "user", "current"))
          ELSE OReturned,
          <<Call("myself", Ok)>>) }

\* Lines 1021-1041: the post of the worklog.
post_worklog(issue_key, calls) ==
    { Run(r.ret, calls \o r.calls) : r \in SingleCall("post", "worklog", issue_key) }

\* Lines 986-1041.  What _parse_time_spent raises is handled like an
\* upstream failure; a failed update of the original estimate is swallowed.
add_worklog(issue_key, text, original_estimate) ==
    LET parsed == _parse_time_spent(text)
    IN  IF parsed.kind = "raise"
        THEN {Run(ORaised(_handle_error(parsed.err, "worklog", issue_key)), <<>>)}
        ELSE IF original_estimate
        THEN UNION { post_worklog(issue_key, <<Call("edit_issue", o)>>) :
                     o \in UpstreamOutcomes }
        ELSE post_worklog(issue_key, <<>>)


OArgs(issue_key, text, assigned, flag) ==
    [issue_key |-> issue_key, text |-> text, assignee |-> assigned, flag |-> flag]


\* The calls of an operation: its arguments with each run they can have.
CallsOf(args, runs) == {[args |-> args, run |-> r] : r \in runs}












\* The values the cache of the client can have.
FieldCaches == {EmptyMap} \cup {d.field_ids : d \in Discoveries}

\* The calls each operation can be given, with every run of each; those of
\* create_issue by the cache they find.
manager_calls ==
    [ get_issue |->
        UNION { CallsOf(OArgs(issue_key, "", "", with_comments),
                        get_issue(issue_key, with_comments)) :
                issue_key \in IssueKeys, with_comments \in BOOLEAN },
      create_issue |->
        [cache \in FieldCaches |->
            UNION { CallsOf(OArgs("", issue_type, assigned, FALSE),
                            create_issue(issue_type, assigned, cache)) :
                    issue_type \in {"Task", "Epic"}, assigned \in Assignees }],
      update_issue |->
        UNION { CallsOf(OArgs(issue_key, requested_status, "", FALSE),
                        update_issue(issue_key, requested_status)) :
                issue_key \in IssueKeys, requested_status \in {"", "done", "Closed"} },
      delete_issue |->
        UNION { CallsOf(OArgs(issue_key, "", "", FALSE), delete_issue(issue_key)) :
                issue_key \in IssueKeys },
      search_issues |->
        UNION { CallsOf(OArgs("", jql, "", FALSE), search_issues(jql)) : jql \in {"project = PROJ"} },
      add_comment |->
        UNION { CallsOf(OArgs(issue_key, "", "", FALSE), add_comment(issue_key)) :
                issue_key \in IssueKeys },
      get_available_transitions |->
        UNION { CallsOf(OArgs(issue_key, "", "", FALSE), available_transitions(issue_key)) :
                issue_key \in IssueKeys },
      transition_issue |->
        UNION { CallsOf(OArgs(issue_key, transition_id.v, assigned, transition_id.t = "str"),
                        transition_issue(issue_key, transition_id, assigned)) :
                issue_key \in IssueKeys, transition_id \in {Str("10"), Num("10")},
                assigned \in Assignees },
      add_worklog |->
        UNION { CallsOf(OArgs(issue_key, text, "", original_estimate),
                        add_worklog(issue_key, text, original_estimate)) :
                issue_key \in IssueKeys, text \in {"1h 30m", "invalid", ""}, original_estimate \in BOOLEAN },
      get_worklogs |->
        UNION { CallsOf(OArgs(issue_key, "", "", FALSE), get_worklogs(issue_key)) :
                issue_key \in IssueKeys },
      get_current_user_account_id |->
        UNION { CallsOf(OArgs("", user.accountId.v, "", user.accountId.t = "str"),
                        get_current_user_account_id(user.accountId)) :
                user \in Users } ]

\* The operations keep nothing between calls but the cache of the client:
\* one call is followed, made on a client whose cache is empty or filled.
call_get_issue ==
    /\ op = ""
    /\ op' = "get_issue"
    /\ \E c \in manager_calls.get_issue :
         oargs' = c.args /\ ocalls' = c.run.calls /\ oret' = c.run.ret
    /\ UNCHANGED <<clientVars, <<fieldVars, opVars, linkVars, epicVars, acctVars, mapperVars, transitionVars, durationVars>>, pureVars>>

\* create_issue is the one operation here that reads and fills the cache.
call_create_issue ==
    /\ op = ""
    /\ op' = "create_issue"
    /\ \E c \in manager_calls.create_issue[field_ids_cache] :
         /\ oargs' = c.args
         /\ ocalls' = c.run.calls
         /\ oret' = c.run.ret
         /\ field_ids_cache' = c.run.cache
         /\ fetchCount' = fetchCount + c.run.fetched
         /\ \E kwargs \in CreateKwargs :
              /\ okwargs' = kwargs
              /\ sent_fields' =
                    IF \E i \in 1..Len(c.run.calls) : c.run.calls[i].api = "create_issue"
                    THEN [sent |-> TRUE,
                          fields |-> create_fields(Summary, c.args.text, c.run.account,
                                                   kwargs, c.run.ids)]
                    ELSE [sent |-> FALSE, fields |-> EmptyMap]
    /\ UNCHANGED <<fieldVars, opVars, linkVars, epicVars, acctVars, mapperVars,
                   transitionVars, durationVars, dateVars, classifyVars, status_run,
                   constructVars>>

call_update_issue ==
    /\ op = ""
    /\ op' = "update_issue"
    /\ \E c \in manager_calls.update_issue :
         /\ oargs' = c.args
         /\ ocalls' = c.run.calls
         /\ oret' = c.run.ret
         /\ status_run' = [listing |-> c.run.listing, chosen |-> c.run.chosen]
    /\ UNCHANGED <<clientVars, fieldVars, opVars, linkVars, epicVars, acctVars, mapperVars,
                   transitionVars, durationVars, dateVars, classifyVars, createVars,
                   constructVars>>

call_delete_issue ==
    /\ op = ""
    /\ op' = "delete_issue"
    /\ \E c \in manager_calls.delete_issue :
         oargs' = c.args /\ ocalls' = c.run.calls /\ oret' = c.run.ret
    /\ UNCHANGED <<clientVars, <<fieldVars, opVars, linkVars, epicVars, acctVars, mapperVars, transitionVars, durationVars>>, pureVars>>

call_search_issues ==
    /\ op = ""
    /\ op' = "search_issues"
    /\ \E c \in manager_calls.search_issues :
         oargs' = c.args /\ ocalls' = c.run.calls /\ oret' = c.run.ret
    /\ UNCHANGED <<clientVars, <<fieldVars, opVars, linkVars, epicVars, acctVars, mapperVars, transitionVars, durationVars>>, pureVars>>

call_add_comment ==
    /\ op = ""
    /\ op' = "add_comment"
    /\ \E c \in manager_calls.add_comment :
         oargs' = c.args /\ ocalls' = c.run.calls /\ oret' = c.run.ret
    /\ UNCHANGED <<clientVars, <<fieldVars, opVars, linkVars, epicVars, acctVars, mapperVars, transitionVars, durationVars>>, pureVars>>

call_get_available_transitions ==
    /\ op = ""
    /\ op' = "get_available_transitions"
    /\ \E c \in manager_calls.get_available_transitions :
         oargs' = c.args /\ ocalls' = c.run.calls /\ oret' = c.run.ret
    /\ UNCHANGED <<clientVars, <<fieldVars, opVars, linkVars, epicVars, acctVars, mapperVars, transitionVars, durationVars>>, pureVars>>

call_transition_issue ==
    /\ op = ""
    /\ op' = "transition_issue"
    /\ \E c \in manager_calls.transition_issue :
         oargs' = c.args /\ ocalls' = c.run.calls /\ oret' = c.run.ret
    /\ UNCHANGED <<clientVars, <<fieldVars, opVars, linkVars, epicVars, acctVars, mapperVars, transitionVars, durationVars>>, pureVars>>

call_add_worklog ==
    /\ op = ""
    /\ op' = "add_worklog"
    /\ \E c \in manager_calls.add_worklog :
         oargs' = c.args /\ ocalls' = c.run.calls /\ oret' = c.run.ret
    /\ UNCHANGED <<clientVars, <<fieldVars, opVars, linkVars, epicVars, acctVars, mapperVars, transitionVars, durationVars>>, pureVars>>

call_get_worklogs ==
    /\ op = ""
    /\ op' = "get_worklogs"
    /\ \E c \in manager_calls.get_worklogs :
         oargs' = c.args /\ ocalls' = c.run.calls /\ oret' = c.run.ret
    /\ UNCHANGED <<clientVars, <<fieldVars, opVars, linkVars, epicVars, acctVars, mapperVars, transitionVars, durationVars>>, pureVars>>

call_get_current_user_account_id ==
    /\ op = ""
    /\ op' = "get_current_user_account_id"
    /\ \E c \in manager_calls.get_current_user_account_id :
         oargs' = c.args /\ ocalls' = c.run.calls /\ oret' = c.run.ret
    /\ UNCHANGED <<clientVars, <<fieldVars, opVars, linkVars, epicVars, acctVars, mapperVars, transitionVars, durationVars>>, pureVars>>

NextManager ==
    \/ call_get_issue
    \/ call_create_issue
    \/ call_update_issue
    \/ call_delete_issue
    \/ call_search_issues
    \/ call_add_comment
    \/ call_get_available_transitions
    \/ call_transition_issue
    \/ call_add_worklog
    \/ call_get_worklogs
    \/ call_get_current_user_account_id


(***************************************************************************)
(* The specifications: one per component, each on the one client.          *)
(***************************************************************************)

(***************************************************************************)
(* JiraClient(config): the construction of the client.                     *)
(***************************************************************************)
\* What a client is constructed from: the environment (config is None) or a
\* JiraConfig given by the caller, a plain holder of the values.  url is
\* None when JIRA_URL is not set or the caller passes None; the other
\* variables default to "".  library says whether the constructor of the
\* upstream library's Jira object raises.
Settings ==
    { [source |-> source, url |-> url, username |-> username, api_token |-> api_token,
       personal_token |-> personal_token, library |-> library] :
      source \in {"env", "config"},
      url \in {None, Some(""), Some("https://example.atlassian.net"),
               Some("https://jira.example.com")},
      username \in {"", "test_user"},
      api_token \in {"", "test_token"},
      personal_token \in {"", "test_personal_token"},
      library \in {"ok", "raise"} }

\* Lines 40-65: [kind, err, config].
_create_config_from_env(env) ==
    IF env.url = None \/ env.url = Some("")
    THEN [kind |-> "raise",
          err |-> PlainError("JiraConfigurationError",
                             "Missing required JIRA_URL environment variable"),
          config |-> env]
    ELSE [kind |-> "return", err |-> NoError, config |-> env]

\* Lines 67-108: [kind, err, jira].  `in` on a url that is None raises
\* TypeError before the try (line 74); whatever is raised inside the try,
\* the error of the library included, leaves as JiraConfigurationError
\* (lines 106-108).
_init_client(config) ==
    IF config.url = None
    THEN [kind |-> "raise", jira |-> None,
          err |-> PlainError("TypeError", "argument of type 'NoneType' is not iterable")]
    ELSE LET url == CHOOSE u \in config.url : TRUE
             is_cloud == Contains(url, "atlassian.net")
             failed(message) ==
                 [kind |-> "raise", jira |-> None,
                  err |-> PlainError("JiraConfigurationError",
                                     "Failed to initialize Jira client: " \o message)]
         IN IF is_cloud /\ (config.username = "" \/ config.api_token = "")
            THEN failed("Cloud authentication requires JIRA_USERNAME and JIRA_API_TOKEN")
            ELSE IF ~is_cloud /\ config.personal_token = ""
            THEN failed("Server/Data Center authentication requires JIRA_PERSONAL_TOKEN")
            ELSE IF config.library = "raise" THEN failed("Invalid URL")
            ELSE [kind |-> "client", err |-> NoError,
                  jira |-> Some([url |-> url, cloud |-> is_cloud,
                                 username |-> IF is_cloud THEN config.username ELSE "",
                                 password |-> IF is_cloud THEN config.api_token ELSE "",
                                 token |-> IF is_cloud THEN "" ELSE config.personal_token])]

\* Lines 26-38: one construction is followed.
construct_client ==
    /\ client.kind = "none"
    /\ \E given \in Settings :
         /\ settings' = given
         /\ client' =
              IF given.source = "env"
              THEN LET made == _create_config_from_env(given)
                   IN IF made.kind = "raise"
                      THEN [kind |-> "raise", err |-> made.err, jira |-> None]
                      ELSE _init_client(made.config)
              ELSE _init_client(given)
    /\ UNCHANGED <<clientVars, fieldVars, opVars, linkVars, epicVars, acctVars,
                   mapperVars, managerVars, transitionVars, durationVars,
                   dateVars, classifyVars, createVars, status_run>>

\* No operation has been called yet: every program counter is idle and every
\* result is pending.
InitRest ==
    /\ fpc = [c \in Callers |-> "idle"]
    /\ fret = [c \in Callers |-> Pending]
    /\ ncalls = 0
    /\ succeeded = FALSE
    /\ firstMap = EmptyMap
    /\ afterSuccess = [c \in Callers |-> FALSE]
    /\ fetchFailed = [c \in Callers |-> FALSE]
    /\ epicOps = 0
    /\ epicType = ""
    /\ lpc = "idle"
    /\ largs = [issue_key |-> "", epic_key |-> ""]
    /\ lfield_ids = EmptyMap
    /\ lattempt = 1
    /\ writes = <<>>
    /\ lret = LPending
    /\ epc = "idle"
    /\ eargs = [epic_key |-> ""]
    /\ jql_queries = <<>>
    /\ documents = <<>>
    /\ jqlLog = <<>>
    /\ eret = EPending
    /\ apc = "idle"
    /\ assignee = ""
    /\ alog = <<>>
    /\ aret = APending
    /\ hargs = [e |-> NoError, resource_type |-> "", resource_id |-> ""]
    /\ hret = [kind |-> "none", err |-> NoError]
    /\ op = ""
    /\ oargs = OArgs("", "", "", FALSE)
    /\ ocalls = <<>>
    /\ oret = [kind |-> "none", val |-> <<>>, err |-> NoError]
    /\ transitions_data = [kind |-> "none", err |-> NoError, data |-> NoResponse]
    /\ tret = [kind |-> "none", val |-> <<>>, err |-> NoError]
    /\ time_spent = ""
    /\ words = <<>>
    /\ dret = [kind |-> "none", val |-> 0, err |-> NoError]
    /\ date_arg = ""
    /\ stamp = [date |-> "", time |-> "", offset |-> ""]
    /\ basic_offsets = FALSE
    /\ pret = [kind |-> "none", val |-> "", parsed |-> FALSE]
    /\ catalog = <<>>
    /\ cret = [kind |-> "none", map |-> EmptyMap]
    /\ okwargs = EmptyMap
    /\ sent_fields = [sent |-> FALSE, fields |-> EmptyMap]
    /\ status_run = [listing |-> None, chosen |-> None]
    /\ settings = [source |-> "", url |-> None, username |-> "", api_token |-> "",
                   personal_token |-> "", library |-> ""]
    /\ client = [kind |-> "none", err |-> NoError, jira |-> None]

\* JiraClient._init_client, line 104: the cache starts empty.
InitAll ==
    /\ field_ids_cache = EmptyMap
    /\ fetchCount = 0
    /\ InitRest

SpecAccount == InitAll /\ [][NextAccount]_vars

NextEpic ==
    \/ link_issue_to_epic_call
    \/ link_check_epic
    \/ link_discover
    \/ link_try_parent
    \/ link_try_epic_link
    \/ link_try_legacy
    \/ link_exhausted
    \/ get_epic_issues_call
    \/ epic_check_epic
    \/ epic_discover
    \/ epic_run_query
    \/ epic_return


SpecEpic == InitAll /\ [][NextEpic]_vars

NextFields ==
    \E c \in Callers :
        \/ get_jira_field_ids_call(c)
        \/ get_jira_field_ids_fetched(c)
        \/ get_jira_field_ids_failed(c)


SpecFields == InitAll /\ [][NextFields]_vars

\* One thread that calls get_jira_field_ids again and again.
NextRefetch ==
    \/ get_jira_field_ids_call(1)
    \/ get_jira_field_ids_fetched(1)
    \/ get_jira_field_ids_failed(1)

SpecRefetch == InitAll /\ [][NextRefetch]_vars


SpecMapper == InitAll /\ [][handle_error_call]_vars

SpecTransitions == InitAll /\ [][NextTransitions]_vars

SpecDuration == InitAll /\ [][parse_time_spent_call]_vars

SpecDate == InitAll /\ [][parse_date_call]_vars

SpecClient == InitAll /\ [][construct_client]_vars

SpecClassify == InitAll /\ [][classify_call]_vars


\* The manager is called on a client whose cache is empty or already filled.
InitManagerSpec ==
    /\ field_ids_cache \in FieldCaches
    /\ fetchCount = IF Truthy(field_ids_cache) THEN 1 ELSE 0
    /\ InitRest

SpecManager == InitManagerSpec /\ [][NextManager]_vars

(***************************************************************************)
(* Properties of the field identity resolver.                              *)
(***************************************************************************)
\* C1: once a call of get_jira_field_ids has returned a map, a call begun
\* later never queries the catalog and returns the map the first one returned.
C1_NoRefetchAfterSuccess ==
    \A c \in Callers :
        afterSuccess[c] =>
            /\ fpc[c] # "fetching"
            /\ fret[c].kind = "return" => fret[c].map = firstMap

\* C2: callers that find the cache unpopulated share one catalog query: at
\* most one call of jira.fields() is in flight.
C2_SingleFlight == Cardinality({c \in Callers : fpc[c] = "fetching"}) <= 1

\* C3: a call in which the catalog query failed ends by returning the empty
\* map; it does not raise.
C3_FailureReturnsEmptyMap ==
    \A c \in Callers :
        (fpc[c] = "done" /\ fetchFailed[c]) => fret[c] = Returned(EmptyMap)

(***************************************************************************)
(* Properties of the epic link orchestrator.                               *)
(***************************************************************************)
WrittenFields == [i \in 1..Len(writes) |-> writes[i].field]
AllWritesFailed == \A i \in 1..Len(writes) : ~writes[i].ok
IsPrefix(a, b) == Len(a) <= Len(b) /\ SubSeq(b, 1, Len(a)) = a

\* The fields a call tries when every write fails: parent, the discovered
\* epic_link field if there is one, then the legacy fields.
StrategyFields(field_ids, legacy) ==
    <<"parent">>
    \o (IF "epic_link" \in DOMAIN field_ids THEN <<field_ids["epic_link"]>> ELSE <<>>)
    \o legacy

\* C4: in link_issue_to_epic a write that succeeded is the last write of the
\* call: no strategy is tried after one whose write succeeded.
C4_NoWriteAfterSuccessfulWrite ==
    \A i \in 1..Len(writes) : writes[i].ok => i = Len(writes)

\* C5: when the issue of epic_key is not an Epic, link_issue_to_epic raises the
\* issue-type error having made no write, and get_epic_issues raises it having
\* run no query.
C5_NonEpicRaisesIssueTypeError ==
    /\ (lpc = "done" /\ epicType \notin {"", "Epic"}) =>
          /\ lret.kind = "raise"
          /\ lret.err.cls = "JiraIssueTypeError"
          /\ writes = <<>>
    /\ (epc = "done" /\ epicType \notin {"", "Epic"}) =>
          /\ eret.kind = "raise"
          /\ eret.err.cls = "JiraIssueTypeError"
          /\ jqlLog = <<>>

\* C6, as claimed: when every write fails the fields written are, in order,
\* parent, the discovered epic_link field if any, customfield_10014 and
\* customfield_10000, and nothing else.
C6_TwoLegacyFields ==
    (writes # <<>> /\ AllWritesFailed) =>
        LET expected == StrategyFields(lfield_ids, <<"customfield_10014", "customfield_10000">>)
        IN  /\ IsPrefix(WrittenFields, expected)
            /\ lpc = "done" => WrittenFields = expected

\* C6, amended: when every write fails the fields written are, in order,
\* parent, the discovered epic_link field if any, customfield_10014,
\* customfield_10000 and the field named epic_link, and nothing else.
C6_ThreeLegacyFields ==
    (writes # <<>> /\ AllWritesFailed) =>
        LET expected == StrategyFields(lfield_ids,
                            <<"customfield_10014", "customfield_10000", "epic_link">>)
        IN  /\ IsPrefix(WrittenFields, expected)
            /\ lpc = "done" => WrittenFields = expected

\* A call in which discovery found an epic_link field ended with all five
\* writes failed.
C6_Witness ==
    /\ lpc = "done"
    /\ AllWritesFailed
    /\ "epic_link" \in DOMAIN lfield_ids
    /\ Len(writes) = 5

\* C7: a call of link_issue_to_epic in which the write of every strategy failed
\* ends by raising an error of the taxonomy whose message says that the issue
\* could not be linked to the epic.
C7_AllFailedRaisesCouldNotLink ==
    (lpc = "done" /\ writes # <<>> /\ AllWritesFailed) =>
        /\ lret.kind = "raise"
        /\ lret.err.cls \in TaxonomyClasses
        /\ Contains(lret.err.msg,
                    "Could not link issue " \o largs.issue_key \o " to epic " \o largs.epic_key)

\* A call without a discovered epic_link field ended with all four writes
\* failed and an error raised.
C7_Witness ==
    /\ lpc = "done"
    /\ AllWritesFailed
    /\ Len(writes) = 4
    /\ lret.kind = "raise"

(***************************************************************************)
(* Properties of get_epic_issues.                                          *)
(***************************************************************************)
EmptyOrFailed(r) == r.kind = "raise" \/ r.docs = <<>>

\* C8: after the type check and field discovery, get_epic_issues runs its
\* candidates in list order; every candidate before the last one run failed or
\* returned no issue; the call returns the list of the first candidate that
\* returned an issue, having run no later one, and returns the empty list when
\* every candidate failed or returned none.
C8_FirstNonEmptyCandidateWins ==
    /\ Len(jqlLog) <= Len(jql_queries)
    /\ \A i \in 1..Len(jqlLog) : jqlLog[i].jql = jql_queries[i]
    /\ \A i \in 1..(Len(jqlLog) - 1) : EmptyOrFailed(jqlLog[i])
    /\ (epc = "queries" /\ jqlLog # <<>>) => EmptyOrFailed(jqlLog[Len(jqlLog)])
    /\ (epc = "done" /\ jql_queries # <<>>) =>
          /\ eret.kind = "return"
          /\ IF eret.docs # <<>>
             THEN /\ jqlLog # <<>>
                  /\ jqlLog[Len(jqlLog)].kind = "return"
                  /\ jqlLog[Len(jqlLog)].docs = eret.docs
             ELSE /\ Len(jqlLog) = Len(jql_queries)
                  /\ \A i \in 1..Len(jqlLog) : EmptyOrFailed(jqlLog[i])

\* The first candidate failed, the second returned no issue, the third
\* returned issues and ended the call with candidates left.
C8_Witness ==
    /\ epc = "done"
    /\ Len(jqlLog) = 3
    /\ jqlLog[1].kind = "raise"
    /\ jqlLog[2].kind = "return"
    /\ eret.kind = "return"
    /\ eret.docs # <<>>
    /\ Len(jqlLog) < Len(jql_queries)

(***************************************************************************)
(* Properties of the account identity resolver.                            *)
(***************************************************************************)
IsAlnumChar(c) == CharIn(c, UpperLetters) \/ CharIn(c, LowerLetters) \/ CharIn(c, Digits)

\* s is not empty and every character of s is alphanumeric or a hyphen
OnlyAlnumAndHyphens(s) ==
    /\ s # ""
    /\ \A i \in 1..Len(s) : IsAlnumChar(SubSeq(s, i, i)) \/ SubSeq(s, i, i) = "-"

HasAlnumChar(s) == \E i \in 1..Len(s) : IsAlnumChar(SubSeq(s, i, i))

ReturnedVerbatim ==
    /\ apc = "done"
    /\ aret = AReturned(assignee)
    /\ alog = <<>>

\* C9, as claimed: a call of _get_account_id with a non-empty identifier made
\* only of alphanumeric characters and hyphens returns the identifier as it is
\* and makes no user search.
C9_AlnumAndHyphensVerbatim ==
    (apc # "idle" /\ OnlyAlnumAndHyphens(assignee)) => ReturnedVerbatim

\* C9, amended: a call of _get_account_id with an identifier made only of
\* alphanumeric characters and hyphens, at least one of them alphanumeric,
\* returns the identifier as it is and makes no user search.
C9_WithAlnumCharVerbatim ==
    (apc # "idle" /\ OnlyAlnumAndHyphens(assignee) /\ HasAlnumChar(assignee)) =>
        ReturnedVerbatim

\* An identifier with a hyphen in it has been returned as it is.
C9_Witness ==
    /\ ReturnedVerbatim
    /\ Contains(assignee, "-")
    /\ HasAlnumChar(assignee)

\* The search produced an account id: its first user has a non-empty string
\* as accountId.
Produced(r) ==
    /\ r.kind = "return"
    /\ r.users # <<>>
    /\ r.users[1].accountId.t = "str"
    /\ r.users[1].accountId.v # ""

\* C10: a call of _get_account_id with an identifier that is not returned as it
\* is makes one direct search with the identifier; makes one permission-scoped
\* search with it exactly when the direct search produced no account id;
\* returns the account id of the first user of the first search that produced
\* one; and raises the error naming the identifier exactly when neither did.
C10_DirectThenPermissionSearch ==
    (~(OnlyAlnumAndHyphens(assignee) /\ HasAlnumChar(assignee))) =>
        /\ apc = "direct" => alog = <<>>
        /\ apc = "fallback" => Len(alog) = 1
        /\ apc = "done" => Len(alog) \in {1, 2}
        /\ \A i \in 1..Len(alog) :
              /\ alog[i].api = (IF i = 1 THEN "direct" ELSE "perm")
              /\ alog[i].query = assignee
        /\ Len(alog) = 2 => ~Produced(alog[1])
        /\ apc = "fallback" => ~Produced(alog[1])
        /\ apc = "done" =>
              IF Produced(alog[1])
              THEN Len(alog) = 1 /\ aret = AReturned(alog[1].users[1].accountId.v)
              ELSE /\ Len(alog) = 2
                   /\ IF Produced(alog[2])
                      THEN aret = AReturned(alog[2].users[1].accountId.v)
                      ELSE /\ aret.kind = "raise"
                           /\ aret.err.cls = "ValueError"
                           /\ Contains(aret.err.msg, "'" \o assignee \o "'")

\* The direct search raised and the permission-scoped search returned two
\* users; the account id of the first was returned.
C10_Witness ==
    /\ apc = "done"
    /\ ~OnlyAlnumAndHyphens(assignee)
    /\ Len(alog) = 2
    /\ alog[1].kind = "raise"
    /\ Len(alog[2].users) = 2
    /\ aret = AReturned("acc-2")

(***************************************************************************)
(* Properties of the error mapper.                                         *)
(***************************************************************************)
HandleErrorCalled == hret.kind # "none"

\* The kind the priority list gives to a status code, "" when it gives none.
KindOfStatus(status_code) ==
    IF status_code = Some(401) THEN "JiraAuthenticationError"
    ELSE IF status_code = Some(403) THEN "JiraPermissionError"
    ELSE IF status_code = Some(404) THEN "JiraResourceNotFoundError"
    ELSE ""

\* The kind the priority list gives to a message.
KindOfMessage(message) ==
    LET low == Lower(message)
    IN  IF Contains(low, "authentication") \/ Contains(low, "unauthorized")
        THEN "JiraAuthenticationError"
        ELSE IF Contains(low, "permission") \/ Contains(low, "access")
        THEN "JiraPermissionError"
        ELSE IF Contains(low, "not found") \/ Contains(low, "does not exist")
        THEN "JiraResourceNotFoundError"
        ELSE "JiraAPIError"

\* C11: _handle_error never returns; it raises one error of the taxonomy,
\* whose kind is the one of the status for 401, 403 and 404 whatever the
\* message, and the one of the lower-cased message, by first match, for a
\* failure without a status code.
C11_KindByPriority ==
    HandleErrorCalled =>
        /\ hret.kind = "raise"
        /\ hret.err.cls \in TaxonomyClasses
        /\ KindOfStatus(hargs.e.status) # ""
             => hret.err.cls = KindOfStatus(hargs.e.status)
        /\ hargs.e.status = None => hret.err.cls = KindOfMessage(hargs.e.msg)

\* A failure without a status code whose message holds words of two kinds,
\* and a failure with status 404 whose message speaks of authentication.
C11_Witness ==
    /\ HandleErrorCalled
    /\ \/ /\ hargs.e.status = None
          /\ Contains(Lower(hargs.e.msg), "access")
          /\ Contains(Lower(hargs.e.msg), "authentication")
          /\ hret.err.cls = "JiraAuthenticationError"
       \/ /\ hargs.e.status = Some(404)
          /\ Contains(Lower(hargs.e.msg), "unauthorized")
          /\ hret.err.cls = "JiraResourceNotFoundError"

\* C12: a failure that carries a status code other than 401, 403 and 404 is
\* classified Generic whatever its message says.
C12_OtherStatusIsGeneric ==
    /\ HandleErrorCalled
    /\ hargs.e.status # None
    /\ KindOfStatus(hargs.e.status) = ""
    => hret.err.cls = "JiraAPIError"

\* C13: the error raised carries the status code and the response of the
\* failure, and its message holds the resource type (in any letter case), the
\* resource id and the original message.
C13_ErrorCarriesContext ==
    HandleErrorCalled =>
        /\ hret.err.status = hargs.e.status
        /\ hret.err.response = hargs.e.response
        /\ Contains(Lower(hret.err.msg), Lower(hargs.resource_type))
        /\ Contains(hret.err.msg, hargs.resource_id)
        /\ Contains(hret.err.msg, hargs.e.msg)

(***************************************************************************)
(* Properties of the transition normalizer.                                *)
(***************************************************************************)
IsRecord(entry) == entry.isdict

\* The response is a list of transitions, bare or under "transitions".
ListOfTransitions(data) ==
    \/ data.t = "list"
    \/ data.t = "dict" /\ data.has_key /\ data.value = "list"

\* The records of the response that has been answered.
RecordsOfResponse == SelectSeq(transitions_data.data.items, IsRecord)

TransitionsReturned ==
    /\ transitions_data.kind = "ok"
    /\ ListOfTransitions(transitions_data.data)
    /\ tret.kind = "return"
    /\ Len(tret.val) = Len(RecordsOfResponse)

\* The to_status the normalization rule gives to a record.
RuleToStatus(record) ==
    IF record.to.t = "dict" THEN Get(record.to_name)
    ELSE IF record.to.t = "str" THEN record.to
    ELSE IF record.to_status.t # "absent" THEN record.to_status
    ELSE IF record.status.t # "absent" THEN record.status
    ELSE Null

\* C16: the to_status of every transition returned is the name of `to` when
\* `to` is an object, `to` when it is a string, otherwise the record's
\* to_status if present, otherwise its status if present, otherwise none.
C16_ToStatusByRule ==
    TransitionsReturned =>
        \A i \in 1..Len(tret.val) :
            tret.val[i].to_status = RuleToStatus(RecordsOfResponse[i])

\* C17: every transition returned has an id that is a string.
C17_IdIsString ==
    TransitionsReturned =>
        \A i \in 1..Len(tret.val) : tret.val[i].id.t = "str"

\* The record spells its target in one of the three ways: `to` an object with
\* a name, `to` a string, or no `to` and a to_status.
SpelledTarget(record) ==
    \/ record.to.t = "dict" /\ record.to_name.t = "str"
    \/ record.to.t = "str"
    \/ record.to.t = "absent" /\ record.to_status.t = "str"

TargetOf(record) ==
    IF record.to.t = "dict" THEN record.to_name
    ELSE IF record.to.t = "str" THEN record.to
    ELSE record.to_status

\* C18: a record that spells its target in one of the three ways gives the
\* canonical record of its id, its name and that target, the same for the
\* three spellings, in a bare array and under "transitions" alike.
C18_SpellingsAgree ==
    TransitionsReturned =>
        \A i \in 1..Len(tret.val) :
            SpelledTarget(RecordsOfResponse[i]) =>
                tret.val[i] = [id |-> Get(RecordsOfResponse[i].id),
                               name |-> Get(RecordsOfResponse[i].name),
                               to_status |-> TargetOf(RecordsOfResponse[i])]

\* A response of two records of the same id, name and target, the first with
\* `to` an object and the second with to_status only, has given twice the
\* same canonical record.
C18_Witness ==
    /\ TransitionsReturned
    /\ Len(RecordsOfResponse) = 2
    /\ RecordsOfResponse[1].to.t = "dict"
    /\ RecordsOfResponse[1].to_name.t = "str"
    /\ RecordsOfResponse[2].to.t = "absent"
    /\ RecordsOfResponse[2].to_status.t = "str"
    /\ tret.val[1] = tret.val[2]
    /\ tret.val[1].to_status = Str("Done")

\* C19: for every response the upstream call returns, the call returns: one
\* canonical transition per record, in the order of the response, for a list
\* of transitions, and the empty sequence for any other response.
C19_NeverRaisesOnResponse ==
    transitions_data.kind = "ok" =>
        /\ tret.kind = "return"
        /\ IF ListOfTransitions(transitions_data.data)
           THEN tret.val = [i \in 1..Len(RecordsOfResponse) |->
                                canonical_transition(RecordsOfResponse[i])]
           ELSE tret.val = <<>>

(***************************************************************************)
(* Properties of the duration parser.                                      *)
(***************************************************************************)
\* The seconds of a unit letter, in either case.
UnitSeconds(letter) ==
    IF letter \in {"w", "W"} THEN 604800
    ELSE IF letter \in {"d", "D"} THEN 86400
    ELSE IF letter \in {"h", "H"} THEN 3600
    ELSE IF letter \in {"m", "M"} THEN 60
    ELSE 0

\* A word is a token when it is an integer followed by one unit letter.
IsTokenWord(word) ==
    /\ Len(word) >= 2
    /\ \A i \in 1..(Len(word) - 1) : IsDigit(SubSeq(word, i, i))
    /\ UnitSeconds(SubSeq(word, Len(word), Len(word))) # 0

\* What a word adds to the sum: value times unit seconds for a token,
\* nothing for another word.
WordSeconds(word) ==
    IF IsTokenWord(word)
    THEN ParseInt(SubSeq(word, 1, Len(word) - 1))
         * UnitSeconds(SubSeq(word, Len(word), Len(word)))
    ELSE 0

RECURSIVE SumOfWords(_)
SumOfWords(ws) ==
    IF ws = <<>> THEN 0 ELSE WordSeconds(Head(ws)) + SumOfWords(Tail(ws))

ReverseWords(ws) == [i \in 1..Len(ws) |-> ws[Len(ws) + 1 - i]]

\* C20: _parse_time_spent returns the sum of value times unit seconds over
\* the tokens of the text, whatever their order and whatever other words
\* stand between them, and raises ValueError exactly when the text is empty
\* or holds no token.
C20_SumOfTokens ==
    dret.kind # "none" =>
        /\ dret.kind = "raise" <=> \A i \in 1..Len(words) : ~IsTokenWord(words[i])
        /\ dret.kind = "raise" => dret.err.cls = "ValueError"
        /\ dret.kind = "return" => dret.val = SumOfWords(words)
        /\ _parse_time_spent(JoinWords(ReverseWords(words))).kind = dret.kind
        /\ _parse_time_spent(JoinWords(ReverseWords(words))).val = dret.val

\* "30m" and "1h" in this order, with a word that is no token, gave 5400.
C20_Witness ==
    /\ dret.kind = "return"
    /\ dret.val = 5400
    /\ Len(words) = 3
    /\ words[1] = "30m"
    /\ \E i \in 1..Len(words) : words[i] \in OtherWords

(***************************************************************************)
(* Properties of the errors that leave the issue manager.                  *)
(***************************************************************************)
\* C14: every error that leaves a public operation of the issue manager is
\* of one of the kinds of the taxonomy.
C14_OnlyTaxonomyErrors ==
    /\ oret.kind = "raise" => oret.err.cls \in TaxonomyClasses
    /\ lret.kind = "raise" => lret.err.cls \in TaxonomyClasses
    /\ eret.kind = "raise" => eret.err.cls \in TaxonomyClasses

\* The operation has raised and the last upstream call it made has failed:
\* it reports that failure.
ReportsUpstreamFailure ==
    /\ oret.kind = "raise"
    /\ ocalls # <<>>
    /\ ocalls[Len(ocalls)].kind = "raise"

\* C15: get_issue, delete_issue, search_issues, add_comment,
\* get_available_transitions and transition_issue report an upstream failure
\* of status 401 as Authentication, 403 as Permission and 404 as NotFound.
C15_StatusKindSurfaces ==
    /\ op \in {"get_issue", "delete_issue", "search_issues", "add_comment",
               "get_available_transitions", "transition_issue"}
    /\ ReportsUpstreamFailure
    /\ KindOfStatus(ocalls[Len(ocalls)].err.status) # ""
    => oret.err.cls = KindOfStatus(ocalls[Len(ocalls)].err.status)

(***************************************************************************)
(* Properties of _parse_date.                                              *)
(***************************************************************************)
\* _parse_date has returned for a timestamp whose date and time are valid.
ValidDateAndTime ==
    /\ pret.kind = "return"
    /\ stamp.time # ""
    /\ fromisoformat(stamp.date \o stamp.time, FALSE).ok

\* The offset is written [+-]HHMM.
IsHHMM(offset) ==
    /\ Len(offset) = 5
    /\ SubSeq(offset, 1, 1) \in {"+", "-"}
    /\ AllDigits(SubSeq(offset, 2, 5))

\* The minutes an offset written [+-]HHMM stands for.
OffsetMinutes(offset) ==
    ParseInt(SubSeq(offset, 2, 3)) * 60 + ParseInt(SubSeq(offset, 4, 5))

\* C21: for a timestamp whose date and time are valid, _parse_date returns
\* the date as written when the offset is spelled +0000, -0000, Z or +00:00,
\* and when it is any other offset [+-]HHMM of less than 24 hours.
C21_DateWhateverTheOffset ==
    /\ ValidDateAndTime
    /\ \/ stamp.offset \in {"+0000", "-0000", "Z", "+00:00"}
       \/ IsHHMM(stamp.offset) /\ OffsetMinutes(stamp.offset) < 24 * 60
    => pret.val = stamp.date

\* C21 as stated: the same for every offset of the shape [+-]HHMM.
C21_DateForEveryHHMM ==
    /\ ValidDateAndTime
    /\ \/ stamp.offset \in {"+0000", "-0000", "Z", "+00:00"}
       \/ IsHHMM(stamp.offset)
    => pret.val = stamp.date

\* A valid timestamp with the offset -0530 has given its date.
C21_Witness ==
    /\ ValidDateAndTime
    /\ stamp.offset = "-0530"
    /\ ~basic_offsets
    /\ pret.val = stamp.date

\* C22: a non-empty text that is not parsed comes back unchanged.
C22_UnparsedTextUnchanged ==
    pret.kind = "return" /\ date_arg # "" /\ ~pret.parsed => pret.val = date_arg

(***************************************************************************)
(* Properties of the classification of the field catalog.                  *)
(***************************************************************************)
\* The fixed semantic keys, in the order their rules are tried.
RuleOrder ==
    <<"epic_link", "epic_name", "parent", "epic_status", "epic_color",
      "priority", "sprint", "story_points">>

\* The catalog entry matches the classification rule of the fixed key.
MatchesRule(key, field) ==
    LET name == Lower(field.name)
    IN CASE key = "epic_link" ->
              \/ Contains(name, "epic link") \/ Contains(name, "epic-link")
              \/ field.name = "Epic Link"
              \/ field.custom = "com.pyxis.greenhopper.jira:gh-epic-link"
         [] key = "epic_name" ->
              \/ Contains(name, "epic name") \/ Contains(name, "epic-name")
              \/ field.name = "Epic Name"
              \/ field.custom = "com.pyxis.greenhopper.jira:gh-epic-label"
         [] key = "parent" ->
              name = "parent" \/ name = "parent link" \/ field.name = "Parent Link"
         [] key = "epic_status" ->
              Contains(name, "epic status") \/ field.name = "Epic Status"
         [] key = "epic_color" ->
              \/ Contains(name, "epic colour") \/ Contains(name, "epic color")
              \/ field.name \in {"Epic Colour", "Epic Color"}
              \/ field.custom = "com.pyxis.greenhopper.jira:gh-epic-color"
         [] key = "priority" -> name = "priority" \/ field.name = "Priority"
         [] key = "sprint" ->
              \/ Contains(name, "sprint")
              \/ field.custom = "com.pyxis.greenhopper.jira:gh-sprint"
         [] key = "story_points" ->
              \/ Contains(name, "story points") \/ Contains(name, "storypoints")
              \/ Contains(name, "story point")
         [] OTHER -> FALSE

\* The fixed key of the first rule the entry matches, "" when it matches none.
FirstRule(field) ==
    LET matched == {i \in 1..Len(RuleOrder) : MatchesRule(RuleOrder[i], field)}
    IN IF matched = {} THEN ""
       ELSE RuleOrder[CHOOSE i \in matched : \A j \in matched : i <= j]

\* C23: a fixed semantic key is in the map only if an entry of the catalog
\* matches the rule of that key, and its value is the id of such an entry.
C23_FixedKeyOnlyByItsRule ==
    cret.kind = "return" =>
        \A i \in 1..Len(RuleOrder) :
            RuleOrder[i] \in DOMAIN cret.map =>
                \E n \in 1..Len(catalog) :
                    /\ MatchesRule(RuleOrder[i], catalog[n])
                    /\ cret.map[RuleOrder[i]] = catalog[n].id

\* C24: the last entry of the catalog is under the key of the first rule it
\* matches; in a catalog of distinct ids no field id is under two keys; the
\* catalog of the one field Epic Link gives epic_link = customfield_10014.
C24_FirstRuleOneKey ==
    cret.kind = "return" =>
        /\ catalog # <<>> /\ FirstRule(catalog[Len(catalog)]) # ""
           => /\ FirstRule(catalog[Len(catalog)]) \in DOMAIN cret.map
              /\ cret.map[FirstRule(catalog[Len(catalog)])] = catalog[Len(catalog)].id
        /\ (\A m, n \in 1..Len(catalog) : catalog[m].id = catalog[n].id => m = n)
           => \A j, k \in DOMAIN cret.map : cret.map[j] = cret.map[k] => j = k
        /\ catalog = <<FieldEntry("customfield_10014", "Epic Link",
                                  "com.pyxis.greenhopper.jira:gh-epic-link")>>
           => cret.map = [key \in {"epic_link"} |-> "customfield_10014"]

\* An entry that matches the rules of epic_name and of sprint has been
\* classified after another entry: it is under epic_name only.
C24_Witness ==
    /\ cret.kind = "return"
    /\ Len(catalog) = 2
    /\ catalog[1].name = "Epic Link"
    /\ catalog[2].name = "Epic Name Sprint"
    /\ cret.map = [key \in {"epic_link", "epic_name"} |->
                     IF key = "epic_link" THEN "customfield_10014"
                     ELSE "customfield_10040"]


(***************************************************************************)
(* create_issue: the fields sent upstream.                                 *)
(***************************************************************************)
\* create_issue has passed fields to jira.create_issue.
FieldsSent == op = "create_issue" /\ sent_fields.sent

\* The fields sent hold this value under this field.
SentAs(field, value) ==
    field \in DOMAIN sent_fields.fields /\ sent_fields.fields[field] = value

IsCustomField(key) == Len(key) >= 12 /\ SubSeq(key, 1, 12) = "customfield_"

\* What the caller asked for: the epic name or else the summary, the colour
\* in either spelling or else the default.
WantedEpicName == IF "epic_name" \in DOMAIN okwargs THEN okwargs["epic_name"] ELSE Summary

WantedEpicColor ==
    IF "epic_color" \in DOMAIN okwargs THEN okwargs["epic_color"]
    ELSE IF "epic_colour" \in DOMAIN okwargs THEN okwargs["epic_colour"]
    ELSE "green"

\* After a call for an Epic the cache of the client holds the map that was
\* discovered, and no entry when the discovery failed.
DiscoveredField(key) == oargs.text = "Epic" /\ key \in DOMAIN field_ids_cache

NoDiscoveryMade == \A i \in 1..Len(ocalls) : ocalls[i].api # "fields"

\* C25, as stated: for an Epic the fields sent hold the discovered epic_name
\* field with the caller's epic name or else the summary, the discovered
\* epic_color field with the caller's colour or else the default, and every
\* customfield_* entry of the caller unchanged; for another issue type no
\* discovery is made and no such field is sent.
C25_EpicFieldsOnlyForEpic ==
    FieldsSent =>
        IF oargs.text = "Epic"
        THEN /\ DiscoveredField("epic_name")
                   => SentAs(field_ids_cache["epic_name"], WantedEpicName)
             /\ DiscoveredField("epic_color")
                   => SentAs(field_ids_cache["epic_color"], WantedEpicColor)
             /\ \A key \in DOMAIN okwargs : IsCustomField(key) => SentAs(key, okwargs[key])
        ELSE /\ NoDiscoveryMade
             /\ \A key \in DOMAIN sent_fields.fields : ~IsCustomField(key)

\* C25, amended: for every issue type each customfield_* entry of the
\* caller is sent unchanged; for an Epic the discovered epic_name field holds
\* the caller's epic name or else the summary and the discovered epic_color
\* field holds the caller's colour or else the default, unless the caller
\* gave an entry for that very field; for another issue type no discovery is
\* made and nothing is sent but the four basic fields, the assignee and the
\* caller's own entries.
C25_EpicFieldsUnlessOverridden ==
    FieldsSent =>
        /\ \A key \in DOMAIN okwargs : IsCustomField(key) => SentAs(key, okwargs[key])
        /\ DiscoveredField("epic_name") /\ field_ids_cache["epic_name"] \notin DOMAIN okwargs
               => SentAs(field_ids_cache["epic_name"], WantedEpicName)
        /\ DiscoveredField("epic_color") /\ field_ids_cache["epic_color"] \notin DOMAIN okwargs
               => SentAs(field_ids_cache["epic_color"], WantedEpicColor)
        /\ oargs.text # "Epic"
               => /\ NoDiscoveryMade
                  /\ DOMAIN sent_fields.fields =
                        {"project", "summary", "issuetype", "description"}
                        \cup (IF oargs.assignee # "" THEN {"assignee"} ELSE {})
                        \cup (DOMAIN okwargs \ {"assignee"})

\* An Epic was created on a client that discovered both fields, with the
\* colour in its second spelling and a raw custom field: the name is the
\* summary, the colour the caller's, the custom field unchanged.
C25_Witness ==
    /\ FieldsSent
    /\ oargs.text = "Epic"
    /\ DiscoveredField("epic_name")
    /\ DiscoveredField("epic_color")
    /\ okwargs = [key \in {"epic_colour", "customfield_10050"} |->
                    IF key = "epic_colour" THEN "red" ELSE "5"]
    /\ SentAs(field_ids_cache["epic_name"], Summary)
    /\ SentAs(field_ids_cache["epic_color"], "red")
    /\ SentAs("customfield_10050", "5")


(***************************************************************************)
(* update_issue with a status.                                             *)
(***************************************************************************)
\* The calls update_issue made of this upstream method.
CallsMade(api) == {i \in 1..Len(ocalls) : ocalls[i].api = api}

\* C26: update_issue with a status, once it has the transitions, executes
\* the first of them whose to_status is the requested status in any letter
\* case and makes no issue_update call; when none leads to that status it
\* raises JiraWorkflowError and has called neither issue_update nor
\* issue_transition.
C26_FirstMatchExecuted ==
    op = "update_issue" /\ oargs.text # "" /\ status_run.listing # None =>
        \A transitions \in status_run.listing :
            LET leads(i) == /\ transitions[i].to_status.t = "str"
                            /\ Lower(transitions[i].to_status.v) = Lower(oargs.text)
                first == {i \in 1..Len(transitions) :
                            leads(i) /\ \A j \in 1..(i - 1) : ~leads(j)}
            IN /\ CallsMade("issue_update") = {}
               /\ \A i \in first : /\ status_run.chosen = Some(transitions[i].id)
                                   /\ CallsMade("issue_transition") # {}
               /\ first = {} => /\ oret.kind = "raise"
                                /\ oret.err.cls = "JiraWorkflowError"
                                /\ CallsMade("issue_transition") = {}


(***************************************************************************)
(* The construction of the client.                                         *)
(***************************************************************************)
UrlMissing == settings.url = None \/ settings.url = Some("")

CloudUrl == \E url \in settings.url : Contains(url, "atlassian.net")

\* C27: a construction fails with JiraConfigurationError when the URL is
\* missing, when the URL is a cloud URL and the username or the API token is
\* empty, and when it is not a cloud URL and the personal token is empty;
\* a client that is produced has the mode of its URL and the credentials of
\* that mode, none of them empty.
C27_ConfigurationErrorOrUsableClient ==
    client.kind # "none" =>
        /\ ( \/ UrlMissing
             \/ CloudUrl /\ (settings.username = "" \/ settings.api_token = "")
             \/ ~CloudUrl /\ settings.personal_token = "" )
               => client.kind = "raise" /\ client.err.cls = "JiraConfigurationError"
        /\ \A jira \in client.jira :
               /\ jira.cloud = CloudUrl
               /\ IF jira.cloud
                  THEN /\ jira.username = settings.username /\ jira.username # ""
                       /\ jira.password = settings.api_token /\ jira.password # ""
                  ELSE jira.token = settings.personal_token /\ jira.token # ""


(***************************************************************************)
(* Errors that are mapped a second time.                                   *)
(***************************************************************************)
\* The class of the error an operation caught when its last upstream call
\* failed inside an operation it called: what that operation raised.
CaughtClass(resource_type, resource_id) ==
    _handle_error(ocalls[Len(ocalls)].err, resource_type, resource_id).cls

LastCallFailed(api) ==
    /\ ocalls # <<>>
    /\ ocalls[Len(ocalls)].api = api
    /\ ocalls[Len(ocalls)].kind = "raise"

\* C28: an error of the taxonomy that an operation catches and maps again
\* leaves with the class it had: get_issue_comments failing inside
\* get_issue, get_issue failing inside create_issue and update_issue, and
\* the JiraAuthenticationError get_current_user_account_id raises for a
\* profile without an account id.
C28_CaughtKindSurfaces ==
    /\ op = "get_issue" /\ LastCallFailed("issue_get_comments")
           => oret.err.cls = CaughtClass("comments", oargs.issue_key)
    /\ op = "create_issue" /\ LastCallFailed("issue") /\ Len(ocalls) > 1
           /\ ocalls[Len(ocalls) - 1].api = "create_issue"
           => oret.err.cls = CaughtClass("issue", "PROJ-9")
    /\ op = "update_issue" /\ oargs.text = "" /\ LastCallFailed("issue")
           => oret.err.cls = CaughtClass("issue", oargs.issue_key)
    /\ op = "get_current_user_account_id" /\ oret.kind = "raise" /\ ocalls[1].kind = "ok"
           => oret.err.cls = "JiraAuthenticationError"


\* C29: within one call of link_issue_to_epic no field is written twice.
C29_NoFieldWrittenTwice ==
    \A i, j \in 1..Len(writes) : writes[i].field = writes[j].field => i = j


\* C30: while no call of get_jira_field_ids has returned a map, whatever
\* number of them failed, the cache of the client is empty as it was at the
\* start, and every call begun so far, those begun after a failure included,
\* has queried the upstream.
C30_FailureStoresNothing ==
    ~succeeded => /\ field_ids_cache = EmptyMap
                  /\ fetchCount = ncalls

\* The thread has begun its second call and none has returned a map: the
\* first one failed, the cache is empty and the second queries the upstream.
C30_Witness ==
    /\ ~succeeded
    /\ ncalls = 2
    /\ fetchCount = 2
    /\ fpc[1] = "fetching"
    /\ field_ids_cache = EmptyMap

====
